---- MODULE Spec2Model ----
(***************************************************************************)
(* A model of the GPU dashboard pipeline: the record reconciler            *)
(* (RunExistenceChecker, DataProcessor) and the usage aggregator           *)
(* (GPUUsageCalculator with the column expressions of calculator/common).  *)
(*                                                                         *)
(* The specifications share the variables of this module:                  *)
(*   SpecRecon  repeated passes of update_run_existence over one dataset   *)
(*   SpecMerge  DataProcessor.combine_df applied to pairs of frames        *)
(*   SpecAgg    GPUUsageCalculator over a set of usage rows                *)
(*   SpecRun    RunManager on one discovered run: validity and usage rows  *)
(*   SpecRetry  the metrics phase of one project: worker pool and retries  *)
(*   SpecFetch  RunManager.fetch_runs over the teams, with upstream faults  *)
(*   SpecResolve the two GPU-count resolvers applied to one run             *)
(*   SpecSummary GPUUsageCalculator.agg_summary over the runs of one week   *)
(*   SpecTags   the "latest" tag over repeated invocations of the pipeline  *)
(*   SpecDiscover RunManager.__query_runs: the pages of one project        *)
(*   SpecPool   RunManager.__get_metrics: one worker pool per project      *)
(*   SpecDue    RunManager.__get_projects: which teams are asked at all    *)
(*   SpecWeek   GPUUsageCalculator.agg_summary: the week and the rows kept  *)
(***************************************************************************)
EXTENDS Integers, Sequences, FiniteSets, TLC

VARIABLES
    \* ---- RunExistenceChecker ----
    run_exists,     \* the run_exists column of the dataset, one value per row
    df_in,          \* the run_exists column handed to the last pass
    upstream,       \* what the upstream platform answers for each row's run
    probed,         \* the rows for which the last pass called api.run
    deleted_runs,   \* the deleted_runs list the last pass returned
    passes,         \* how many passes have run
    \* ---- DataProcessor ----
    new_runs_df,    \* first argument of the last combine_df call
    old_runs_df,    \* second argument of the last combine_df call
    all_runs_df,    \* what the call returned (a frame), when it returned
    merge_outcome,  \* "none" | "returned" | "raised"
    merge_calls,    \* how many combine_df calls have been made
    \* ---- GPUUsageCalculator ----
    usage_rows,     \* the all_runs_df handed to GPUUsageCalculator
    end_date,       \* date_range[1], a day number
    schedule,       \* CONFIG.companies: per company its (date, node count) breakpoints
    scaffold_week,  \* the weekday on which the scaffold's weekly buckets start
    tables,         \* the four tables update_tables computed
    published,      \* whether update_tables has run
    \* ---- RunManager, one discovered run ----
    node,           \* the node the run query returned
    date_range,     \* <<start_date, end_date>>, day numbers
    run_pc,         \* "discovered" | "valid" | "dropped" | "emitted"
    combined_df,    \* the usage rows __combined_run_df holds for the run
    \* ---- RunManager, the metrics phase of one project ----
    max_workers,    \* the size of the worker pool
    retry_pc,       \* per run: "queued" | "calling" | "sleeping" | "returned" | "blocked"
    attempt,        \* per run: the loop variable of the retry loop
    calls,          \* per run: the attempts made, <<timeout, duration, result>> each
    sleeps,         \* per run: the waits between attempts
    metrics_df,     \* per run: "unset" | "metrics" | "empty"
    metrics_phase,  \* "running" | "finished"
    \* ---- RunManager.fetch_runs over the teams ----
    faults,         \* per team: what upstream and the team's run do at each stage
    fetch_pc,       \* "get_projects" | "get_runs" | "get_metrics" | "combine" | "returned" | "raised"
    team_i,         \* the position in team_configs the current loop has reached
    projects,       \* per team: team_config.projects
    project_runs,   \* per team: the runs of its project
    run_metrics,    \* per team: the metrics_df of its run
    fetch_df,       \* the teams whose rows are in the combined frame
    \* ---- the GPU-count resolvers ----
    run_team,       \* the team of the run
    config,         \* node.config: how it parses, and the values under the team's keys
    run_info,       \* node.runInfo: Null, or Some(gpuCount)
    description,    \* node.description
    resolved,       \* which resolver ran, and what came out
    \* ---- GPUUsageCalculator.agg_summary ----
    summary_runs,   \* all_runs_df, one entry per run_id
    summary_pc,     \* "ready" | "done"
    sorted,         \* the run_ids that pass the filter, in the order of the sort
    is_overlap_col, \* per run_id: the is_overlap column ("null" | "true" | "false")
    summary,        \* per project: 'Total runs' and overlap_runs
    \* ---- the "latest" tag on the dashboard project ----
    dashboard,      \* the published runs: invocation, owner tag, latest tag or not
    dashboard_before, \* the published runs when the current invocation began
    tag_pc,         \* "idle" | "removed" | "overall"
    tag_range,      \* the date range of the current invocation
    tag_outcome,    \* how the last invocation ended: "none" | "raised" | "published"
    invocations,    \* the number of invocations begun
    \* ---- RunManager.__query_runs ----
    upstream_nodes, \* the project's runs upstream, in the order of the cursor
    fail_at,        \* the query that raises (0: none does)
    cursor,         \* the cursor of the next query (0 for "")
    requested,      \* the cursors of the queries made, in order
    nodes_acc,      \* nodes: the positions of the nodes gathered so far
    discover_pc,    \* "querying" | "returned" | "raised"
    discovered,     \* the positions of the runs __process_nodes returned
    \* ---- RunManager.__get_metrics and __process_project_runs ----
    config_max_workers, \* CONFIG.max_workers
    pool_n,         \* per project: len(project.runs)
    pool_project,   \* the position in the project list the loop has reached
    pool_pc,        \* "next" | "collecting" | "done"
    pool_max,       \* max_workers of the open executor (0: none is open)
    pools_started,  \* the projects for which an executor was made
    task,           \* per run: "none" | "queued" | "running" | "finished" | "collected"
    future_result,  \* per run: what its future holds once it is finished
    run_metrics_df, \* per run: run.metrics_df
    write_count,    \* per run: how often run.metrics_df was assigned
    \* ---- RunManager.__get_projects: the test on the dates ----
    team_dates,     \* team_config.start_date and team_config.end_date
    requested_range,\* self.start_date and self.end_date
    due_pc,         \* "ready" | "done"
    projects_asked, \* whether api.projects was called for the team
    \* ---- GPUUsageCalculator.agg_summary: the window of the summary ----
    week_end_date,  \* self.end_date, a day number (day 0 is a Monday)
    week_rows,      \* the all_runs_df handed to GPUUsageCalculator
    week_pc,        \* "ready" | "empty" | "done"
    week_window,    \* start_date and end_date of agg_summary
    week_filtered   \* df_filtered, the rows the summary is computed from

reconVars == <<run_exists, df_in, upstream, probed, deleted_runs, passes>>
mergeVars == <<new_runs_df, old_runs_df, all_runs_df, merge_outcome, merge_calls>>
aggVars == <<usage_rows, end_date, schedule, scaffold_week, tables, published>>
runVars == <<node, date_range, run_pc, combined_df>>
retryVars == <<max_workers, retry_pc, attempt, calls, sleeps, metrics_df, metrics_phase>>
fetchVars == <<faults, fetch_pc, team_i, projects, project_runs, run_metrics, fetch_df>>
resolveVars == <<run_team, config, run_info, description, resolved>>
summaryVars == <<summary_runs, summary_pc, sorted, is_overlap_col, summary>>
tagVars == <<dashboard, dashboard_before, tag_pc, tag_range, tag_outcome, invocations>>
discoverVars == <<upstream_nodes, fail_at, cursor, requested, nodes_acc, discover_pc,
                  discovered>>
poolVars == <<config_max_workers, pool_n, pool_project, pool_pc, pool_max, pools_started,
              task, future_result, run_metrics_df, write_count>>
dueVars == <<team_dates, requested_range, due_pc, projects_asked>>
weekVars == <<week_end_date, week_rows, week_pc, week_window, week_filtered>>
vars == <<reconVars, mergeVars, aggVars, runVars, retryVars, fetchVars, resolveVars,
          summaryVars, tagVars,
          discoverVars,
          poolVars,
          dueVars,
          weekVars>>

\* A null in a string column.
NULL == "null"
\* A nullable number: no value, or one value.
Null == <<>>
Some(v) == <<v>>
Val(x) == x[1]

(***************************************************************************)
(*                       RunExistenceChecker                               *)
(***************************************************************************)

\* The rows of the dataset: one row per (run, date).  Rows 1 and 2 belong to
\* the same run on two dates, row 3 to another run.
ReconRows == {
    [company_name |-> "a", project |-> "p", run_id |-> "r1", date |-> 1],
    [company_name |-> "a", project |-> "p", run_id |-> "r1", date |-> 2],
    [company_name |-> "b", project |-> "p", run_id |-> "r2", date |-> 1] }

\* What a call of api.run(run_path) can do: return, raise CommError because
\* the run is not found, raise CommError for another communication failure
\* (the wandb client wraps HTTP errors in CommError), raise something else.
ProbeOutcomes == {"ok", "comm_not_found", "comm_other", "exception"}

\* check_run_existence: the try/except of the probe.
check_run_existence(outcome) ==
    IF outcome = "ok" THEN "exists"
    ELSE IF outcome \in {"comm_not_found", "comm_other"} THEN "deleted"
    ELSE "error"

\* Whether update_progress reaches the probe for a row with this status.
does_probe(status) == status # "deleted"

\* A variant of update_progress that probes every row, deleted or not.
update_progress_always_probes(status, outcome) == check_run_existence(outcome)

\* update_progress: the new run_exists value of one row.
update_progress(status, outcome) ==
    IF status = "deleted" THEN "deleted" ELSE check_run_existence(outcome)

MaxPasses == 3

\* load_dataframe: a dataset without the column gets 'exists' everywhere; a
\* dataset with the column holds whatever was stored, an empty field being null.
ReconInit ==
    /\ run_exists \in [ReconRows -> {"exists", NULL}]
    /\ df_in = run_exists
    /\ upstream = [r \in ReconRows |-> "ok"]
    /\ probed = {}
    /\ deleted_runs = {}
    /\ passes = 0

\* update_run_existence: one pass over every row of the frame.
UpdateRunExistence ==
    /\ passes < MaxPasses
    /\ passes' = passes + 1
    /\ \E answers \in [ReconRows -> ProbeOutcomes] :
        /\ df_in' = run_exists
        /\ upstream' = answers
        /\ run_exists' = [r \in ReconRows |->
                            update_progress(run_exists[r], answers[r])]
        /\ probed' = {r \in ReconRows : does_probe(run_exists[r])}
        /\ deleted_runs' = {r \in ReconRows :
                              /\ does_probe(run_exists[r])
                              /\ check_run_existence(answers[r]) = "deleted"
                              /\ run_exists[r] # "deleted"}

(***************************************************************************)
(*                          DataProcessor                                  *)
(***************************************************************************)

MaxRows == 2
MaxLoggedAt == 2

ABSENT == "absent"

\* Natural keys (date, company_name, project, run_id).
Keys == {
    [date |-> 1, company_name |-> "a", project |-> "p", run_id |-> "r1"],
    [date |-> 2, company_name |-> "b", project |-> "p", run_id |-> "r1"] }

\* A frame: its columns ("base" stands for the columns every usage frame has,
\* run_exists and cpu_count may be missing), whether some value does not cast
\* to the schema's type, and its rows in order.  pl.DataFrame() has no column.
EmptyFrame == [cols |-> {}, bad |-> FALSE, rows |-> <<>>]
NoFrame == EmptyFrame

is_empty(df) == Len(df.rows) = 0

RowsOver(statuses) ==
    [key : Keys, logged_at : 1..MaxLoggedAt, run_exists : statuses]

SeqsUpTo(S, n) == UNION {[1..m -> S] : m \in 0..n}

StatusesOf(cols) ==
    IF "run_exists" \in cols THEN {"exists", "deleted"} ELSE {ABSENT}

\* Frames the collector (or the uploader in front of combine_df) can hand in.
NewFrames ==
    {[cols |-> {"base"} \cup c, bad |-> b, rows |-> r] :
        <<c, b, r>> \in
            {<<c, b, r>> \in (SUBSET {"run_exists", "cpu_count"}) \X BOOLEAN
                             \X SeqsUpTo(RowsOver({"exists", "deleted", ABSENT}), MaxRows) :
                /\ \A i \in 1..Len(r) : r[i].run_exists \in StatusesOf(c)
                /\ b => ("cpu_count" \in c /\ Len(r) > 0)}}

\* Historical frames read back from the dataset artifact.
OldFrames ==
    {[cols |-> {"base", "cpu_count"} \cup c, bad |-> b, rows |-> r] :
        <<c, b, r>> \in
            {<<c, b, r>> \in {{}, {"run_exists"}} \X BOOLEAN
                             \X SeqsUpTo(RowsOver({"exists", "deleted", ABSENT}), MaxRows) :
                /\ \A i \in 1..Len(r) : r[i].run_exists \in StatusesOf(c)
                /\ b => Len(r) > 0}}

\* set_schema: the casts; any failure (a missing column, a value that does
\* not cast) is swallowed and an empty pl.DataFrame() is returned.
set_schema(df) ==
    IF "cpu_count" \notin df.cols \/ df.bad THEN EmptyFrame ELSE df

\* Lines 9-15: add the columns old lacks as null, keep exactly new's columns.
conform(old, columns) ==
    [cols |-> columns,
     bad  |-> old.bad,
     rows |-> [i \in 1..Len(old.rows) |->
                 [old.rows[i] EXCEPT !.run_exists =
                     IF "run_exists" \notin columns THEN ABSENT
                     ELSE IF "run_exists" \in old.cols THEN @ ELSE NULL]]]

CompanyRank(c) == IF c = "a" THEN 1 ELSE 2
RunRank(r) == IF r = "r1" THEN 1 ELSE 2
\* The position the three trailing sorts give a key: company_name, then date
\* descending, then run_id and project.
KeyRank(k) == CompanyRank(k.company_name) * 1000 + (99 - k.date) * 10 + RunRank(k.run_id)

RECURSIVE SortedRows(_)
SortedRows(S) ==
    IF S = {} THEN <<>>
    ELSE LET m == CHOOSE x \in S : \A y \in S : KeyRank(x.key) <= KeyRank(y.key)
         IN  <<m>> \o SortedRows(S \ {m})

KeysIn(rows) == {rows[i].key : i \in 1..Len(rows)}

\* sort(logged_at, descending).unique(key, keep="first"): for each key one row
\* of the latest logged_at; rows that tie on logged_at may come in any order.
Latest(rows, k) ==
    {i \in 1..Len(rows) :
        /\ rows[i].key = k
        /\ \A j \in 1..Len(rows) :
              rows[j].key = k => rows[j].logged_at <= rows[i].logged_at}

dedup(rows) ==
    {SortedRows({rows[pick[k]] : k \in KeysIn(rows)}) :
        pick \in {f \in [KeysIn(rows) -> 1..Len(rows)] :
                    \A k \in KeysIn(rows) : f[k] \in Latest(rows, k)}}

Returned(df) == [outcome |-> "returned", frame |-> df]
Raised == [outcome |-> "raised", frame |-> EmptyFrame]

\* pl.concat((a, b)) followed by the sort/unique chain.  A frame without
\* columns takes the other frame's columns when it comes first; when it comes
\* second the widths differ and concat raises (or, where the library accepts
\* it, contributes nothing); two frames without columns give a frame without
\* 'logged_at', on which sort raises.
concat_dedup(a, b) ==
    IF a.cols = {} /\ b.cols = {} THEN {Raised}
    ELSE IF a.cols = {} THEN
        {Returned([cols |-> b.cols, bad |-> FALSE, rows |-> r]) : r \in dedup(b.rows)}
    ELSE IF b.cols = {} THEN
        {Raised} \cup
        {Returned([cols |-> a.cols, bad |-> FALSE, rows |-> r]) : r \in dedup(a.rows)}
    ELSE
        {Returned([cols |-> a.cols, bad |-> FALSE, rows |-> r]) :
            r \in dedup(a.rows \o b.rows)}

\* combine_df: every result the call can have.
combine_df(new, old) ==
    IF is_empty(old) THEN {Returned(new)}
    ELSE concat_dedup(set_schema(new), set_schema(conform(old, new.cols)))

\* One merge call on the pair of frames the state holds.
Combine ==
    /\ merge_calls = 0
    /\ merge_calls' = 1
    /\ \E res \in combine_df(new_runs_df, old_runs_df) :
            /\ all_runs_df' = res.frame
            /\ merge_outcome' = res.outcome
    /\ UNCHANGED <<new_runs_df, old_runs_df>>

\* The merged dataset merged with itself.
Recombine ==
    /\ merge_calls = 1
    /\ merge_outcome = "returned"
    /\ merge_calls' = 2
    /\ \E res \in combine_df(all_runs_df, all_runs_df) :
            /\ new_runs_df' = all_runs_df
            /\ old_runs_df' = all_runs_df
            /\ all_runs_df' = res.frame
            /\ merge_outcome' = res.outcome

MergeIdle ==
    /\ new_runs_df = NoFrame
    /\ old_runs_df = NoFrame
    /\ all_runs_df = NoFrame
    /\ merge_outcome = "none"
    /\ merge_calls = 0

ReconIdle ==
    /\ run_exists = [r \in ReconRows |-> "exists"]
    /\ df_in = run_exists
    /\ upstream = [r \in ReconRows |-> "ok"]
    /\ probed = {}
    /\ deleted_runs = {}
    /\ passes = 0

(***************************************************************************)
(*                        GPUUsageCalculator                               *)
(*                                                                         *)
(* Dates are day numbers: day 0 is Monday 2024-02-12, so day 3 is the      *)
(* program start 2024-02-15 and day 18 is 2024-03-01.  Durations are in    *)
(* minutes, GPU-hours and percentages in tenths (one decimal place, the    *)
(* precision fillna_round reports).                                        *)
(***************************************************************************)

GPU_PER_NODE == 8
HOURS_PER_DAY == 24
MAX_PERCENT == 100

ProgramStart == 3
MaxUsageRows == 2

Companies == {"T", "U"}

\* n / d rounded to the nearest integer, halves away from zero (d > 0).
RoundDiv(n, d) ==
    IF n >= 0 THEN (2 * n + d) \div (2 * d) ELSE -((2 * (-n) + d) \div (2 * d))

RECURSIVE SumOver(_, _)
SumOver(S, f) ==
    IF S = {} THEN 0
    ELSE LET x == CHOOSE y \in S : TRUE IN f[x] + SumOver(S \ {x}, f)

\* date.weekday() of Python: Monday is 0.
python_weekday(d) == d % 7
\* dt.weekday() of polars: Monday is 1, Sunday is 7.
polars_weekday(d) == (d % 7) + 1
\* date - duration(days = weekday % 7), the week_start column.
week_start(d) == d - (polars_weekday(d) % 7)
\* strftime("%Y-%m").
year_month(d) ==
    IF d <= 17 THEN "2024-02" ELSE IF d <= 48 THEN "2024-03" ELSE "2024-04"
\* end_date - timedelta(days = end_date.weekday()).
target_week_start == end_date - python_weekday(end_date)

\* ---- the calendar scaffold (BlankTable) ----

\* The node count in effect on day d: the last breakpoint on or before d.
NodesOn(c, d) ==
    LET sch == schedule[c]
        at  == {i \in 1..Len(sch) : sch[i].date <= d}
    IN  IF at = {} THEN 0
        ELSE sch[CHOOSE i \in at : \A j \in at : j <= i].assigned_gpu_node

ScaffoldDays == ProgramStart..end_date

\* The week a scaffold day belongs to.
ScaffoldWeekStart(d) ==
    IF scaffold_week = "monday" THEN d - python_weekday(d) ELSE week_start(d)

ScaffoldKey(kind, d) ==
    IF kind = "daily" THEN d
    ELSE IF kind = "weekly" THEN ScaffoldWeekStart(d)
    ELSE IF kind = "monthly" THEN year_month(d)
    ELSE "all"

\* The scaffold's buckets of one granularity: a bucket per company and period,
\* carrying the node count of each of its days added up; only closed weeks.
Scaffold(kind) ==
    LET days == IF kind = "weekly"
                THEN {d \in ScaffoldDays : ScaffoldWeekStart(d) < target_week_start}
                ELSE ScaffoldDays
    IN  {[company |-> c, key |-> k,
          assigned_gpu_node |->
              SumOver({d \in days : ScaffoldKey(kind, d) = k},
                      [d \in days |-> NodesOn(c, d)])] :
            <<c, k>> \in Companies \X {ScaffoldKey(kind, d) : d \in days}}

\* team_table: the company a team's rows are accounted to.
TeamCompany(team) == IF team \in Companies THEN team ELSE NULL

\* ---- the aggregator ----

\* __init__: rows whose run_exists is 'deleted' are filtered out (a null
\* run_exists makes the predicate null, and filter drops the row as well).
kept(rows) == {r \in rows : r.run_exists # "deleted" /\ r.run_exists # NULL}

\* The period key the aggregator computes for a usage row.
RowKey(kind, r) ==
    IF kind = "daily" THEN r.date
    ELSE IF kind = "weekly" THEN week_start(r.date)
    ELSE IF kind = "monthly" THEN year_month(r.date)
    ELSE "all"

\* The rows a bucket is joined with; for the weekly table only rows of weeks
\* before target_week_start take part.
Joined(kind, b, rows) ==
    {r \in rows :
        /\ TeamCompany(r.company_name) = b.company
        /\ RowKey(kind, r) = b.key
        /\ kind = "weekly" => week_start(r.date) < target_week_start}

\* gpu_hour, in GPU-minutes.
gpu_hour(r) == r.duration_min * r.gpu_count

\* The cap of agg_gpu_hour left out.
cap_total_uncapped(total, assigned) == total

\* when(total > assigned).then(assigned).otherwise(total)
cap_total(total, assigned) == IF total > assigned THEN assigned ELSE total

\* agg_gpu_hour, first half: per (company, date) of the daily scaffold the raw
\* total rounded to one decimal and the capped total, in tenths of GPU-hours.
daily_gpu_hour(b, rows) ==
    LET J        == Joined("daily", b, rows)
        total    == RoundDiv(SumOver(J, [r \in J |-> gpu_hour(r)]), 6)
        assigned == b.assigned_gpu_node * GPU_PER_NODE * HOURS_PER_DAY * 10
    IN  [company |-> b.company, date |-> b.key,
         total_gpu_hour |-> cap_total(total, assigned),
         raw_total_gpu_hour |-> total]

\* agg_gpu_hour, second half: the daily values summed per key; the week key is
\* computed from the date with the aggregator's own expression.
agg_gpu_hour(kind, rows) ==
    LET daily == {daily_gpu_hour(b, rows) : b \in Scaffold("daily")}
        keyOf(g) == RowKey(kind, [date |-> g.date])
    IN  {[company |-> c, key |-> k,
          total_gpu_hour |->
              SumOver({g \in daily : g.company = c /\ keyOf(g) = k},
                      [g \in daily |-> g.total_gpu_hour]),
          raw_total_gpu_hour |->
              SumOver({g \in daily : g.company = c /\ keyOf(g) = k},
                      [g \in daily |-> g.raw_total_gpu_hour])] :
            <<c, k>> \in {<<g.company, keyOf(g)>> : g \in daily}}

\* TMP_COLS metrics_hour counting every row, sampled or not.
metrics_hour_all_rows(r) == r.duration_min

\* TMP_COLS: metrics_hour is the duration where a utilization sample exists.
metrics_hour(r) == IF r.average_gpu_utilization # Null THEN r.duration_min ELSE 0

\* TMP_COLS: sum_gpu_utilization (null * duration is null and adds nothing).
sum_gpu_utilization(r) ==
    IF r.average_gpu_utilization # Null
    THEN Val(r.average_gpu_utilization) * r.duration_min ELSE 0

\* What stands for the float -inf (x / 0 for x < 0, which fill_nan leaves
\* alone): a rate below every finite one.
NegInf == -(MAX_PERCENT * 1000000)

\* METRICS_COLS utilization_rate followed by fillna_round, in tenths of a
\* percent; total is null when agg_gpu_hour has no row for the bucket.
utilization_rate(total, assigned) ==
    IF total = Null THEN 0
    ELSE IF Val(total) > assigned THEN MAX_PERCENT * 10
    ELSE IF assigned = 0 THEN (IF Val(total) = 0 THEN 0 ELSE NegInf)
    ELSE RoundDiv(Val(total) * MAX_PERCENT * 10, assigned)

\* METRICS_COLS average_gpu_utilization followed by fillna_round, in tenths.
average_gpu_utilization(sum_util, total_metrics_hour) ==
    IF total_metrics_hour = 0 THEN 0
    ELSE RoundDiv(sum_util * 10, total_metrics_hour)

\* Buckets that have no usage row dropped (an inner join).
join_buckets_inner(kind, rows) ==
    {b \in Scaffold(kind) : Joined(kind, b, rows) # {}}

\* scaffold.join(runs, how="left"): every bucket of the scaffold stays.
join_buckets(kind, rows) == Scaffold(kind)

\* One of agg_daily / agg_weekly / agg_monthly / agg_overall.
agg_table(kind, all_rows) ==
    LET rows == kept(all_rows) IN
    IF rows = {} THEN {}
    ELSE
      LET gh == agg_gpu_hour(kind, rows) IN
      {LET J        == Joined(kind, b, rows)
           assigned == b.assigned_gpu_node * GPU_PER_NODE * HOURS_PER_DAY * 10
           m        == {g \in gh : g.company = b.company /\ g.key = b.key}
           g        == IF m = {} THEN [total_gpu_hour |-> Null, raw_total_gpu_hour |-> Null]
                       ELSE LET x == CHOOSE y \in m : TRUE
                            IN  [total_gpu_hour |-> Some(x.total_gpu_hour),
                                 raw_total_gpu_hour |-> Some(x.raw_total_gpu_hour)]
           tmh      == SumOver(J, [r \in J |-> metrics_hour(r)])
           su       == SumOver(J, [r \in J |-> sum_gpu_utilization(r)])
       IN  [company |-> b.company, key |-> b.key,
            total_gpu_hour |-> IF g.total_gpu_hour = Null THEN 0 ELSE Val(g.total_gpu_hour),
            utilization_rate |-> utilization_rate(g.total_gpu_hour, assigned),
            average_gpu_utilization |-> average_gpu_utilization(su, tmh),
            n_runs |-> Cardinality({r.run_id : r \in J}),
            assigned_gpu_node |-> b.assigned_gpu_node,
            assigned_gpu_hour |-> assigned,
            raw_total_gpu_hour |-> g.raw_total_gpu_hour,
            total_metrics_hour |-> tmh] :
         b \in join_buckets(kind, rows)}

Kinds == {"daily", "weekly", "monthly", "overall"}
NoTables == [k \in Kinds |-> {}]

\* A usage row's duration, GPU count and utilization sample.
Shapes == {
    [duration_min |-> 120,  gpu_count |-> 4,  average_gpu_utilization |-> Some(60)],
    [duration_min |-> 1440, gpu_count |-> 16, average_gpu_utilization |-> Null],
    [duration_min |-> 3,    gpu_count |-> 1,  average_gpu_utilization |-> Some(90)],
    [duration_min |-> 60,   gpu_count |-> -1, average_gpu_utilization |-> Null] }

\* The (date, run_id) keys usage rows are drawn from: two runs on the first
\* day, one of them also on day 6 (a Sunday) and on the first day of the next
\* month.
UsageSlots == {<<3, "r1">>, <<3, "r2">>, <<6, "r1">>, <<18, "r1">>}

UsageRow(slot, sh, ex) ==
    [date |-> slot[1], company_name |-> "T", project |-> "p", run_id |-> slot[2],
     duration_min |-> sh.duration_min, gpu_count |-> sh.gpu_count,
     average_gpu_utilization |-> sh.average_gpu_utilization,
     run_exists |-> ex]

\* Rows of runs that exist, of every shape, and rows of deleted runs.
UsageUniverse ==
    {UsageRow(slot, sh, "exists") : <<slot, sh>> \in UsageSlots \X Shapes}
    \cup {UsageRow(slot, CHOOSE sh \in Shapes : sh.duration_min = 120, "deleted") :
            slot \in UsageSlots}

Breakpoint(d, n) == [date |-> d, assigned_gpu_node |-> n]

SchedulesOfT == {
    <<Breakpoint(3, 2)>>,
    <<Breakpoint(3, 0)>>,
    <<Breakpoint(3, 1), Breakpoint(6, 0)>> }

AggInit ==
    /\ usage_rows = {}
    /\ end_date \in {9, 18}
    /\ schedule \in {[c \in Companies |->
                        IF c = "T" THEN s ELSE <<Breakpoint(3, 1)>>] :
                     s \in SchedulesOfT}
    /\ scaffold_week \in {"monday", "sunday"}
    /\ tables = NoTables
    /\ published = FALSE

AggIdle ==
    /\ usage_rows = {}
    /\ end_date = 9
    /\ schedule = [c \in Companies |-> <<Breakpoint(3, 1)>>]
    /\ scaffold_week = "monday"
    /\ tables = NoTables
    /\ published = FALSE

\* The dataset grows by one row of a (date, company, project, run_id) key it
\* does not hold yet.
AddUsageRow ==
    /\ ~published
    /\ Cardinality(usage_rows) < MaxUsageRows
    /\ \E r \in UsageUniverse :
          /\ \A q \in usage_rows : q.date # r.date \/ q.run_id # r.run_id
          /\ usage_rows' = usage_rows \cup {r}
    /\ UNCHANGED <<end_date, schedule, scaffold_week, tables, published>>

\* update_tables: the four aggregations of one invocation.
UpdateTables ==
    /\ ~published
    /\ tables' = [k \in Kinds |-> agg_table(k, usage_rows)]
    /\ published' = TRUE
    /\ UNCHANGED <<usage_rows, end_date, schedule, scaffold_week>>


(***************************************************************************)
(*                 RunManager: one discovered run                          *)
(*                                                                         *)
(* Times are minutes since 00:00 of day 0 (Japan time, after the 9 hour    *)
(* shift of __process_nodes); created_at and heartbeat fall on whole       *)
(* minutes.                                                                *)
(***************************************************************************)

MinutesPerDay == 24 * 60

At(d, h, m) == d * MinutesPerDay + h * 60 + m

\* datetime.date() of a time.
DateOf(t) == t \div MinutesPerDay

\* CONFIG.ignore_tags, as configured (lower case).
IgnoreTags == {"other"}

\* t.lower() of a tag.
lower(t) == IF t = "Other" THEN "other" ELSE t

\* The nodes a run query can return: when the run was created and last
\* heard of, its tags and what runInfo holds.
Nodes ==
    {[createdAt |-> c, heartbeatAt |-> h, tags |-> tg, runInfo |-> ri] :
        <<c, h, tg, ri>> \in
            {<<c, h, tg, ri>> \in
                {At(1, 9, 0), At(1, 23, 0), At(2, 0, 0)}
                \X {At(1, 9, 0), At(1, 10, 0), At(2, 0, 0), At(2, 1, 0), At(3, 0, 0)}
                \X {{}, {"other"}, {"Other"}, {"exp"}, {"exp", "other"}}
                \X {"none", "no_gpu", "gpu"} : c <= h}}

DateRanges == {<<0, 0>>, <<1, 1>>, <<1, 2>>, <<2, 3>>}

\* __is_run_valid with the duration test left out.
is_run_valid_any_duration(n, start_date, stop_date) ==
    /\ n.runInfo = "gpu"
    /\ IgnoreTags \cap {lower(t) : t \in n.tags} = {}
    /\ ~(DateOf(n.heartbeatAt) < start_date \/ DateOf(n.createdAt) > stop_date)

\* __is_run_valid (both dates of the range are always set by __init__).
is_run_valid(n, start_date, stop_date) ==
    /\ n.runInfo = "gpu"
    /\ IgnoreTags \cap {lower(t) : t \in n.tags} = {}
    /\ n.createdAt # n.heartbeatAt
    /\ ~(DateOf(n.heartbeatAt) < start_date \/ DateOf(n.createdAt) > stop_date)

\* pl.datetime_range(start, end, interval="1m"): the minute marks from start
\* up to end, both ends included.
minutes_range(start, end) == start..end

\* __calculate_daily_duration: the marks grouped by date and counted
\* (duration_hour is the count over 60), dates outside the range filtered.
calculate_daily_duration(start, end, start_date, stop_date) ==
    LET marks == minutes_range(start, end)
    IN  {[date |-> d,
          duration_min |-> Cardinality({t \in marks : DateOf(t) = d})] :
            d \in {DateOf(t) : t \in marks} \cap (start_date..stop_date)}

\* __create_run_df: the duration rows of the run (the metric columns and the
\* run's constant columns do not change the set of rows).
create_run_df(n, start_date, stop_date) ==
    calculate_daily_duration(n.createdAt, n.heartbeatAt, start_date, stop_date)

RunInit ==
    /\ node \in Nodes
    /\ date_range \in DateRanges
    /\ run_pc = "discovered"
    /\ combined_df = {}

RunIdle ==
    /\ node = [createdAt |-> At(1, 9, 0), heartbeatAt |-> At(1, 10, 0),
               tags |-> {}, runInfo |-> "gpu"]
    /\ date_range = <<1, 1>>
    /\ run_pc = "discovered"
    /\ combined_df = {}

\* __process_nodes on the node (test_mode off): a Run is built when the node
\* is valid.
ProcessNode ==
    /\ run_pc = "discovered"
    /\ run_pc' = IF is_run_valid(node, date_range[1], date_range[2])
                 THEN "valid" ELSE "dropped"
    /\ UNCHANGED <<node, date_range, combined_df>>

\* __combined_run_df on the run: its rows are added unless there is none.
CombineRunDf ==
    /\ run_pc = "valid"
    /\ combined_df' = create_run_df(node, date_range[1], date_range[2])
    /\ run_pc' = "emitted"
    /\ UNCHANGED <<node, date_range>>


(***************************************************************************)
(*            RunManager: the metrics phase of one project                 *)
(*                                                                         *)
(* Durations and timeouts are in seconds.                                  *)
(***************************************************************************)

max_retries == 3
initial_timeout == 5
RetrySleep == 5

\* A call that never returns.
NEVER == 0 - 1

\* The runs of the project.
ProjectRuns == {"r1", "r2"}

\* What one call of __create_metrics_df can meet: how long it takes, whether
\* the upstream call (api.run, run.history) raises, and what the history
\* yields if it does not.
CallBehaviours ==
    {[duration |-> d, upstream |-> "ok", result |-> "metrics"] : d \in {3, 8, 20}}
    \cup {[duration |-> 3, upstream |-> "ok", result |-> "empty"],
          [duration |-> 3, upstream |-> "raises", result |-> "none"],
          [duration |-> NEVER, upstream |-> "ok", result |-> "none"]}

\* __create_metrics_df: every exception is caught inside and an empty frame
\* is returned.
create_metrics_df(b) == IF b.upstream = "raises" THEN "empty" ELSE b.result

\* The timeout of every attempt the same.
attempt_timeout_fixed(k) == initial_timeout

\* @timeout(initial_timeout * (attempt + 1))
attempt_timeout(k) == initial_timeout * (k + 1)

\* The timeout wrapper: the wrapped call runs in the calling thread; the
\* timer only leaves a mark, looked at after the call has come back.
timed_out(seconds, duration) == duration > seconds

Busy == {r \in ProjectRuns : retry_pc[r] \in {"calling", "sleeping", "blocked"}}

RetryInit ==
    /\ max_workers \in 1..Cardinality(ProjectRuns)
    /\ retry_pc = [r \in ProjectRuns |-> "queued"]
    /\ attempt = [r \in ProjectRuns |-> 0]
    /\ calls = [r \in ProjectRuns |-> <<>>]
    /\ sleeps = [r \in ProjectRuns |-> <<>>]
    /\ metrics_df = [r \in ProjectRuns |-> "unset"]
    /\ metrics_phase = "running"

RetryIdle ==
    /\ max_workers = 1
    /\ retry_pc = [r \in ProjectRuns |-> "queued"]
    /\ attempt = [r \in ProjectRuns |-> 0]
    /\ calls = [r \in ProjectRuns |-> <<>>]
    /\ sleeps = [r \in ProjectRuns |-> <<>>]
    /\ metrics_df = [r \in ProjectRuns |-> "unset"]
    /\ metrics_phase = "running"

\* A free worker of the pool takes the run's task.
StartTask(r) ==
    /\ metrics_phase = "running"
    /\ retry_pc[r] = "queued"
    /\ Cardinality(Busy) < max_workers
    /\ retry_pc' = [retry_pc EXCEPT ![r] = "calling"]
    /\ UNCHANGED <<max_workers, attempt, calls, sleeps, metrics_df, metrics_phase>>

\* One pass of the retry loop's body: the wrapped call and what follows it.
Attempt(r) ==
    /\ retry_pc[r] = "calling"
    /\ \E b \in CallBehaviours :
        LET seconds == attempt_timeout(attempt[r]) IN
        /\ calls' = [calls EXCEPT ![r] =
                       Append(@, <<seconds, b.duration, create_metrics_df(b), b.upstream>>)]
        /\ IF b.duration = NEVER
           THEN /\ retry_pc' = [retry_pc EXCEPT ![r] = "blocked"]
                /\ UNCHANGED metrics_df
           ELSE IF ~timed_out(seconds, b.duration)
           THEN /\ retry_pc' = [retry_pc EXCEPT ![r] = "returned"]
                /\ metrics_df' = [metrics_df EXCEPT ![r] = create_metrics_df(b)]
           ELSE IF attempt[r] < max_retries - 1
           THEN /\ retry_pc' = [retry_pc EXCEPT ![r] = "sleeping"]
                /\ UNCHANGED metrics_df
           ELSE /\ retry_pc' = [retry_pc EXCEPT ![r] = "returned"]
                /\ metrics_df' = [metrics_df EXCEPT ![r] = "empty"]
    /\ UNCHANGED <<max_workers, attempt, sleeps, metrics_phase>>

\* time.sleep(5), then the next pass of the loop.
Sleep(r) ==
    /\ retry_pc[r] = "sleeping"
    /\ sleeps' = [sleeps EXCEPT ![r] = Append(@, RetrySleep)]
    /\ attempt' = [attempt EXCEPT ![r] = @ + 1]
    /\ retry_pc' = [retry_pc EXCEPT ![r] = "calling"]
    /\ UNCHANGED <<max_workers, calls, metrics_df, metrics_phase>>

\* as_completed has handed over every future and the executor has shut down.
FinishPhase ==
    /\ metrics_phase = "running"
    /\ \A r \in ProjectRuns : retry_pc[r] = "returned"
    /\ metrics_phase' = "finished"
    /\ UNCHANGED <<max_workers, retry_pc, attempt, calls, sleeps, metrics_df>>


(***************************************************************************)
(*                 RunManager.fetch_runs over the teams                    *)
(*                                                                         *)
(* Every team has one project with one run upstream.                       *)
(***************************************************************************)

\* self.team_configs, in order.
team_configs == <<"a", "b">>
Teams == {team_configs[i] : i \in 1..Len(team_configs)}

\* What can go wrong for a team: whether its schedule overlaps the requested
\* range, whether api.projects raises, whether building the Run from the node
\* raises (a null heartbeatAt, a config that parses to something else than an
\* object), whether the metrics fetch fails, whether __create_run_df raises.
Faults ==
    [due : BOOLEAN, discovery : {"ok", "raises"}, node : {"ok", "raises"},
     metrics : {"ok", "fails"}, rows : {"ok", "raises"}]

FetchInit ==
    /\ faults \in [Teams -> Faults]
    /\ fetch_pc = "get_projects"
    /\ team_i = 1
    /\ projects = [t \in Teams |-> {}]
    /\ project_runs = [t \in Teams |-> {}]
    /\ run_metrics = [t \in Teams |-> "unset"]
    /\ fetch_df = {}

FetchIdle ==
    /\ faults = [t \in Teams |-> [due |-> TRUE, discovery |-> "ok", node |-> "ok",
                                 metrics |-> "ok", rows |-> "ok"]]
    /\ fetch_pc = "get_projects"
    /\ team_i = 1
    /\ projects = [t \in Teams |-> {}]
    /\ project_runs = [t \in Teams |-> {}]
    /\ run_metrics = [t \in Teams |-> "unset"]
    /\ fetch_df = {}

\* The loop over team_configs moves on, or the phase is over.
NextTeam(next_pc) ==
    IF team_i < Len(team_configs)
    THEN team_i' = team_i + 1 /\ fetch_pc' = fetch_pc
    ELSE team_i' = 1 /\ fetch_pc' = next_pc

\* __get_projects, one team: a team that is not due, or whose discovery
\* raises, gets no projects.
GetProjects ==
    /\ fetch_pc = "get_projects"
    /\ LET t == team_configs[team_i] IN
       projects' = [projects EXCEPT ![t] =
                      IF faults[t].due /\ faults[t].discovery = "ok"
                      THEN {"p"} ELSE {}]
    /\ NextTeam("get_runs")
    /\ UNCHANGED <<faults, project_runs, run_metrics, fetch_df>>

\* __get_runs, one team: __query_runs and __process_nodes on its projects.
\* An exception out of __process_nodes is caught by the handler of
\* __query_runs, which calls __process_nodes again, outside any try.
GetRuns ==
    /\ fetch_pc = "get_runs"
    /\ LET t == team_configs[team_i] IN
       IF projects[t] # {} /\ faults[t].node = "raises"
       THEN /\ fetch_pc' = "raised"
            /\ UNCHANGED <<team_i, project_runs>>
       ELSE /\ project_runs' = [project_runs EXCEPT ![t] =
                                  IF projects[t] # {} THEN {"r"} ELSE {}]
            /\ NextTeam("get_metrics")
    /\ UNCHANGED <<faults, projects, run_metrics, fetch_df>>

\* __get_metrics, one team: a failed fetch leaves an empty metrics_df.
GetMetrics ==
    /\ fetch_pc = "get_metrics"
    /\ LET t == team_configs[team_i] IN
       run_metrics' = [run_metrics EXCEPT ![t] =
                         IF project_runs[t] = {} THEN @
                         ELSE IF faults[t].metrics = "ok" THEN "metrics" ELSE "empty"]
    /\ NextTeam("combine")
    /\ UNCHANGED <<faults, projects, project_runs, fetch_df>>

\* __combined_run_df, one team: a run whose __create_run_df raises is
\* reported and skipped.
CombinedRunDf ==
    /\ fetch_pc = "combine"
    /\ LET t == team_configs[team_i] IN
       fetch_df' = IF project_runs[t] # {} /\ faults[t].rows = "ok"
                   THEN fetch_df \cup {t} ELSE fetch_df
    /\ NextTeam("returned")
    /\ UNCHANGED <<faults, projects, project_runs, run_metrics>>


(***************************************************************************)
(*                       The GPU-count resolvers                           *)
(*                                                                         *)
(* set_gpucount.py holds one resolver, driven by TEAM_CONFIGS;             *)
(* RunManager.__set_gpucount, the one __process_nodes calls, holds         *)
(* another.  A config is described by how its text parses and by the       *)
(* values found under the team's nodes key and GPUs key.  The teams whose  *)
(* branch reads a file, the summary metrics or runInfo.gpu (abeja, aihub,  *)
(* aidealab, datagrid) are left out.                                       *)
(***************************************************************************)

\* TEAM_CONFIGS: <<nodes key, GPUs key>>, "" for a None key, <<>> for a None
\* policy.  nii-geniac is not in the table.
TEAM_CONFIGS ==
    [t \in {"alt-geniac", "eques-geniac", "future-geniac", "kotoba-geniac",
            "nablas-geniac", "ricoh-geniac"} |->
        CASE t = "alt-geniac"    -> <<"NNODES", "">>
          [] t = "eques-geniac"  -> <<>>
          [] t = "future-geniac" -> <<"world_size", "">>
          [] t = "kotoba-geniac" -> <<"num_nodes", "num_gpus">>
          [] t = "nablas-geniac" -> <<"num_nodes", "num_gpus_per_node">>
          [] t = "ricoh-geniac"  -> <<"NNODES", "NUM_GPUS">>]

ResolverTeams == DOMAIN TEAM_CONFIGS \cup {"nii-geniac"}

\* A value of the config: absent, an integer, a string holding an integer, a
\* string holding anything else, a list, or an object {"value": ...} around
\* an integer or around a string that holds no integer.
Missing == [kind |-> "missing", v |-> 0]
IntValue(n) == [kind |-> "int", v |-> n]
ConfigValues ==
    {Missing} \cup {IntValue(n) : n \in {0 - 2, 0, 2, 4}}
        \cup {[kind |-> "str", v |-> 4], [kind |-> "text", v |-> 0],
              [kind |-> "list", v |-> 0], [kind |-> "dict_int", v |-> 2],
              [kind |-> "dict_int", v |-> 4], [kind |-> "dict_text", v |-> 0]}

\* node.config: a JSON object, a text that is no JSON, or a JSON text that
\* is no object (null, a list).
Configs ==
    [json : {"object"}, nodes : ConfigValues, gpus : ConfigValues]
        \cup [json : {"invalid", "not_object"}, nodes : {Missing}, gpus : {Missing}]

RunInfos == {Null, Some(3)}
Descriptions == {"4Node-run", "run"}

\* What a resolver hands back: an integer, something that is no integer, or
\* an exception.
Count(n) == [out |-> "int", v |-> n]
NotAnInt == [out |-> "not_int", v |-> 0]
ResolverRaised == [out |-> "raised", v |-> 0]

\* node.runInfo.gpuCount if node.runInfo else 0
default_gpu_count(info) == IF info = Null THEN 0 ELSE Val(info)

\* get_config_value, on the value found under the key (or not found).
get_config_value(x) ==
    CASE x.kind \in {"int", "str", "dict_int"} -> x.v
      [] OTHER -> 0

\* calculate_gpu_count.
calculate_gpu_count(num_nodes, gpu_key, cfg, t, desc) ==
    IF t = "alt-geniac" THEN num_nodes * 8
    ELSE IF t = "ricoh-geniac"
    THEN (IF desc = "4Node-run" THEN 4 ELSE 1) * 8
    ELSE IF gpu_key # ""
    THEN LET num_gpus == get_config_value(cfg.gpus) IN
         IF num_gpus = 0 THEN num_nodes ELSE num_nodes * num_gpus
    ELSE num_nodes

\* set_gpucount: json.loads runs before the try.
set_gpucount(t, cfg, info, desc) ==
    IF t \notin DOMAIN TEAM_CONFIGS THEN Count(default_gpu_count(info))
    ELSE IF cfg.json = "invalid" THEN ResolverRaised
    ELSE IF TEAM_CONFIGS[t] = <<>> THEN Count(default_gpu_count(info))
    ELSE LET team_config == TEAM_CONFIGS[t]
             num_nodes == get_config_value(cfg.nodes)
             gpu_count == calculate_gpu_count(num_nodes, team_config[2], cfg, t, desc)
         IN  Count(IF gpu_count > 0 THEN gpu_count ELSE default_gpu_count(info))

\* int(x) in RunManager.__set_gpucount, after a dict gave its 'value':
\* Null where int raises ValueError or TypeError.
int(x) ==
    CASE x.kind \in {"int", "str", "dict_int"} -> Some(x.v)
      [] x.kind = "missing" -> Some(0)
      [] OTHER -> Null

\* RunManager.__set_gpucount: a text that is no JSON reads as {}, a JSON text
\* that is no object has no .get.
RunManager_set_gpucount(t, cfg, info) ==
    LET fallback == Count(default_gpu_count(info)) IN
    IF t \notin {"nii-geniac", "elyza-geniac", "kotoba-geniac"} THEN fallback
    ELSE IF cfg.json = "not_object" THEN ResolverRaised
    ELSE IF t = "kotoba-geniac"
    THEN LET num_nodes == int(cfg.nodes)
             num_gpus == int(cfg.gpus)
             gpu_count == IF num_nodes = Null \/ num_gpus = Null THEN 0
                          ELSE Val(num_nodes) * Val(num_gpus)
         IN  IF gpu_count = 0 THEN fallback ELSE Count(gpu_count)
    ELSE LET world_size == cfg.nodes IN
         IF world_size.kind = "dict_text" THEN NotAnInt
         ELSE LET gpu_count == IF int(world_size) = Null THEN 0
                               ELSE Val(int(world_size))
              IN  IF gpu_count = 0 THEN fallback ELSE Count(gpu_count)

NotResolved == [by |-> "none", out |-> "none", v |-> 0]

ResolveInit ==
    /\ run_team \in ResolverTeams
    /\ config \in Configs
    /\ run_info \in RunInfos
    /\ description \in Descriptions
    /\ resolved = NotResolved

ResolveIdle ==
    /\ run_team = "eques-geniac"
    /\ config = [json |-> "object", nodes |-> Missing, gpus |-> Missing]
    /\ run_info = Null
    /\ description = "run"
    /\ resolved = NotResolved

\* set_gpucount(node, team, run_path).
SetGpucount ==
    /\ resolved.by = "none"
    /\ LET r == set_gpucount(run_team, config, run_info, description) IN
       resolved' = [by |-> "set_gpucount", out |-> r.out, v |-> r.v]
    /\ UNCHANGED <<run_team, config, run_info, description>>

\* self.__set_gpucount(node, team).
RunManagerSetGpucount ==
    /\ resolved.by = "none"
    /\ LET r == RunManager_set_gpucount(run_team, config, run_info) IN
       resolved' = [by |-> "run_manager", out |-> r.out, v |-> r.v]
    /\ UNCHANGED <<run_team, config, run_info, description>>


(***************************************************************************)
(*                  GPUUsageCalculator.agg_summary                         *)
(*                                                                         *)
(* A run is described by what the group_by over run_id leaves of it:       *)
(* min(created_at), max(updated_at), first(host_name), and whether any of  *)
(* its rows passes the filter (a date within the week, not "deleted").     *)
(***************************************************************************)

SummaryRunIds == {"r1", "r2", "r3"}
SummaryCompany == "c"
SummaryProjects == {"p1", "p2"}
SummaryHosts == {"G", "H"}
SummaryIntervals ==
    {<<At(1, 9, 0), At(1, 10, 0)>>, <<At(1, 9, 30), At(1, 11, 0)>>,
     <<At(1, 10, 0), At(1, 11, 0)>>, <<At(1, 9, 0), At(1, 11, 0)>>}

SummaryRuns ==
    {[company_name |-> SummaryCompany, project |-> pr, host_name |-> h,
      created_at |-> iv[1], updated_at |-> iv[2], in_week |-> w] :
        pr \in SummaryProjects, h \in SummaryHosts, iv \in SummaryIntervals,
        w \in BOOLEAN}

\* The order of strings the sort uses.
NameRank(n) == CASE n = "G" -> 1 [] n = "H" -> 2 [] n = "p1" -> 1 [] n = "p2" -> 2
                 [] OTHER -> 0

\* .sort(['company_name', 'project', 'host_name', 'created_at']): row a may
\* stand before row b.
SortKeyLeq(a, b) ==
    \/ NameRank(a.project) < NameRank(b.project)
    \/ /\ a.project = b.project
       /\ \/ NameRank(a.host_name) < NameRank(b.host_name)
          \/ a.host_name = b.host_name /\ a.created_at <= b.created_at

\* The orders the sort may produce for a set of run_ids: rows with equal
\* keys come in any order.
SortedOrders(ids, runs) ==
    {o \in [1..Cardinality(ids) -> ids] :
        /\ \A i, j \in DOMAIN o : i # j => o[i] # o[j]
        /\ \A i, j \in DOMAIN o : i < j => SortKeyLeq(runs[o[i]], runs[o[j]])}

\* .over(['company_name', 'project', 'host_name'])
SamePartition(a, b) ==
    a.company_name = b.company_name /\ a.project = b.project /\ a.host_name = b.host_name

\* pl.col('updated_at').shift().over(...): the updated_at of the row before
\* row i within its partition, Null for the first row of a partition.
prev_updated_at(o, runs, i) ==
    LET before == {j \in 1..(i - 1) : SamePartition(runs[o[j]], runs[o[i]])} IN
    IF before = {} THEN Null ELSE Some(runs[o[CHOOSE j \in before : \A k \in before : k <= j]].updated_at)

\* pl.col('created_at') < pl.col('prev_updated_at'), as it would be with <=.
is_overlap_touching(created_at, prev) ==
    IF prev = Null THEN "null"
    ELSE IF created_at <= Val(prev) THEN "true" ELSE "false"

\* pl.col('created_at') < pl.col('prev_updated_at'): null against a null.
is_overlap(created_at, prev) ==
    IF prev = Null THEN "null"
    ELSE IF created_at < Val(prev) THEN "true" ELSE "false"

SummaryInit ==
    /\ summary_runs \in [SummaryRunIds -> SummaryRuns]
    /\ summary_pc = "ready"
    /\ sorted = <<>>
    /\ is_overlap_col = [r \in SummaryRunIds |-> "null"]
    /\ summary = [pr \in SummaryProjects |-> [total_runs |-> 0, overlap_runs |-> 0]]

SummaryIdle ==
    /\ summary_runs = [r \in SummaryRunIds |->
                         [company_name |-> SummaryCompany, project |-> "p1",
                          host_name |-> "H", created_at |-> At(1, 9, 0),
                          updated_at |-> At(1, 10, 0), in_week |-> FALSE]]
    /\ summary_pc = "ready"
    /\ sorted = <<>>
    /\ is_overlap_col = [r \in SummaryRunIds |-> "null"]
    /\ summary = [pr \in SummaryProjects |-> [total_runs |-> 0, overlap_runs |-> 0]]

\* agg_summary: filter, group by run, sort, shift within the partition,
\* compare, and count per (company, project); sum() skips the nulls.
AggSummary ==
    /\ summary_pc = "ready"
    /\ LET df_filtered == {r \in SummaryRunIds : summary_runs[r].in_week} IN
       \E o \in SortedOrders(df_filtered, summary_runs) :
          LET col == [r \in SummaryRunIds |->
                        IF r \notin df_filtered THEN "null"
                        ELSE LET i == CHOOSE k \in DOMAIN o : o[k] = r IN
                             is_overlap(summary_runs[r].created_at,
                                        prev_updated_at(o, summary_runs, i))]
          IN  /\ sorted' = o
              /\ is_overlap_col' = col
              /\ summary' =
                   [pr \in SummaryProjects |->
                      LET rows == {r \in df_filtered : summary_runs[r].project = pr} IN
                      [total_runs |-> Cardinality(rows),
                       overlap_runs |-> Cardinality({r \in rows : col[r] = "true"})]]
    /\ summary_pc' = "done"
    /\ UNCHANGED summary_runs


(***************************************************************************)
(*              The "latest" tag on the dashboard project                  *)
(*                                                                         *)
(* main() calls remove_latest_tags without its argument; remove_tags.py    *)
(* run as a script, and GPUUsageCalculator built as its own script builds  *)
(* it, pass a date range.  Both ways of starting an invocation are here.   *)
(***************************************************************************)

MaxInvocations == 3

\* CONFIG.companies: each company's schedule of assigned nodes.
TagCompanies == {"T", "U"}
CompanySchedule ==
    [c \in TagCompanies |->
        IF c = "T" THEN <<[date |-> 1, assigned_gpu_node |-> 1]>>
        ELSE <<[date |-> 1, assigned_gpu_node |-> 0],
               [date |-> 3, assigned_gpu_node |-> 1]>>]

\* dt.date.max
DateMax == 99

\* The schedule loop of remove_latest_tags and of update_companies: some
\* entry with nodes assigned overlaps the date range.
is_gpu_assigned(company, range_start, range_end) ==
    LET sched == CompanySchedule[company] IN
    \E i \in DOMAIN sched :
        LET schedule_start == sched[i].date
            schedule_end == IF i + 1 <= Len(sched) THEN sched[i + 1].date ELSE DateMax
        IN  /\ schedule_start <= range_end
            /\ range_start < schedule_end
            /\ sched[i].assigned_gpu_node > 0

\* remove_latest_tags, for one run that carries the latest tag.
should_remove_tag(run, range_start, range_end) ==
    /\ run.latest
    /\ \/ run.owner = "overall"
       \/ run.owner \in TagCompanies /\ is_gpu_assigned(run.owner, range_start, range_end)

\* wandb.init(..., tags=[owner, latest]) in invocation n.
Publication(n, owner) == [inv |-> n, owner |-> owner, latest |-> TRUE]

TagInit ==
    /\ dashboard = {}
    /\ dashboard_before = {}
    /\ tag_pc = "idle"
    /\ tag_range = <<0, 0>>
    /\ tag_outcome = "none"
    /\ invocations = 0

TagIdle == TagInit

\* main(): remove_latest_tags() is called without date_range and raises
\* TypeError before anything is removed or published.
MainInvocation ==
    /\ tag_pc = "idle"
    /\ invocations < MaxInvocations
    /\ \E dr \in DateRanges : tag_range' = dr
    /\ invocations' = invocations + 1
    /\ dashboard_before' = dashboard
    /\ tag_outcome' = "raised"
    /\ UNCHANGED <<dashboard, tag_pc>>

\* remove_latest_tags(date_range).
RemoveLatestTags ==
    /\ tag_pc = "idle"
    /\ invocations < MaxInvocations
    /\ \E dr \in DateRanges :
          /\ tag_range' = dr
          /\ dashboard' = {IF should_remove_tag(run, dr[1], dr[2])
                           THEN [run EXCEPT !.latest = FALSE] ELSE run : run \in dashboard}
    /\ invocations' = invocations + 1
    /\ dashboard_before' = dashboard
    /\ tag_pc' = "removed"
    /\ UNCHANGED tag_outcome

\* update_tables: update_overall always publishes.
UpdateOverall ==
    /\ tag_pc = "removed"
    /\ dashboard' = dashboard \cup {Publication(invocations, "overall")}
    /\ tag_pc' = "overall"
    /\ UNCHANGED <<dashboard_before, tag_range, tag_outcome, invocations>>

\* update_tables: update_companies publishes for the companies with nodes
\* assigned in the range.
UpdateCompanies ==
    /\ tag_pc = "overall"
    /\ dashboard' = dashboard \cup
          {Publication(invocations, c) : c \in
              {x \in TagCompanies : is_gpu_assigned(x, tag_range[1], tag_range[2])}}
    /\ tag_pc' = "idle"
    /\ tag_outcome' = "published"
    /\ UNCHANGED <<dashboard_before, tag_range, invocations>>


(***************************************************************************)
(*                      RunManager.__query_runs                            *)
(*                                                                         *)
(* The cursor of an edge is its position in the upstream list.             *)
(***************************************************************************)

Min2(a, b) == IF a < b THEN a ELSE b

\* "first": the size of a page (1000 in the program).
PageSize == 2
MaxUpstream == 4

\* A node passes __is_run_valid, fails it, or makes __process_nodes raise (a
\* null heartbeatAt, a config that is no JSON object).
NodeKinds == {"valid", "invalid", "bad"}

\* runs(first: $first, after: $cursor): the positions of the edges of a page.
page_edges(upstream_list, after) ==
    [i \in 1..Min2(PageSize, Len(upstream_list) - after) |-> after + i]

\* __process_nodes: the runs of the valid nodes, in order; Null if it raises.
process_nodes(upstream_list, positions) ==
    IF \E i \in DOMAIN positions : upstream_list[positions[i]] = "bad"
    THEN Null
    ELSE Some(SelectSeq(positions, LAMBDA p : upstream_list[p] = "valid"))

DiscoverInit ==
    /\ upstream_nodes \in SeqsUpTo(NodeKinds, MaxUpstream)
    /\ fail_at \in 0..3
    /\ cursor = 0
    /\ requested = <<>>
    /\ nodes_acc = <<>>
    /\ discover_pc = "querying"
    /\ discovered = <<>>

DiscoverIdle ==
    /\ upstream_nodes = <<>>
    /\ fail_at = 0
    /\ cursor = 0
    /\ requested = <<>>
    /\ nodes_acc = <<>>
    /\ discover_pc = "querying"
    /\ discovered = <<>>

\* The end of __query_runs: return self.__process_nodes(nodes, team,
\* project), from the try or from the handler; what __process_nodes raises
\* in the try is caught by the handler, what it raises in the handler is not.
ReturnProcessed ==
    LET runs == process_nodes(upstream_nodes, nodes_acc) IN
    IF runs = Null
    THEN discover_pc' = "raised" /\ UNCHANGED discovered
    ELSE discover_pc' = "returned" /\ discovered' = Val(runs)

\* One pass of the while loop.
QueryPage ==
    /\ discover_pc = "querying"
    /\ requested' = Append(requested, cursor)
    /\ IF Len(requested) + 1 = fail_at
       THEN ReturnProcessed /\ UNCHANGED <<cursor, nodes_acc>>
       ELSE LET edges == page_edges(upstream_nodes, cursor) IN
            IF edges = <<>>
            THEN ReturnProcessed /\ UNCHANGED <<cursor, nodes_acc>>
            ELSE /\ nodes_acc' = nodes_acc \o edges
                 /\ cursor' = edges[Len(edges)]
                 /\ UNCHANGED <<discover_pc, discovered>>
    /\ UNCHANGED <<upstream_nodes, fail_at>>

(***************************************************************************)
(*        RunManager.__get_metrics and __process_project_runs              *)
(*                                                                         *)
(* The projects of the teams, in the order of the two loops; a run is      *)
(* <<project, number>>.                                                    *)
(***************************************************************************)

PoolProjects == <<"p1", "p2">>
PoolSizes == {0, 1, 3}
PoolWorkers == {1, 2}
PoolRunsUniverse == {<<PoolProjects[i], k>> : i \in DOMAIN PoolProjects, k \in 1..3}
RunsOfProject(p) == {r \in PoolRunsUniverse : r[1] = p /\ r[2] <= pool_n[p]}

\* What a run's fetch gives back: metrics, an empty frame, or an exception
\* that leaves __create_metrics_df_with_retry.
FetchOutcomes == {"metrics", "empty", "raises"}
Unset == [of |-> <<"", 0>>, data |-> "unset"]

\* if project.runs:
starts_pool(n) == n > 0

\* max_workers, were it the number of runs alone.
pool_size_uncapped(configured, n) == n

\* max_workers = min(CONFIG.max_workers, len(project.runs))
pool_size(configured, n) == Min2(configured, n)

\* run = futures[future], were it the first run of the project whatever the
\* future.
run_of_future_first(r) == <<r[1], 1>>

\* run = futures[future]: the run the future was submitted for.
run_of_future(r) == r

Running == {r \in PoolRunsUniverse : task[r] = "running"}

PoolInit ==
    /\ config_max_workers \in PoolWorkers
    /\ pool_n \in [{PoolProjects[i] : i \in DOMAIN PoolProjects} -> PoolSizes]
    /\ pool_project = 1
    /\ pool_pc = "next"
    /\ pool_max = 0
    /\ pools_started = {}
    /\ task = [r \in PoolRunsUniverse |-> "none"]
    /\ future_result = [r \in PoolRunsUniverse |-> Unset]
    /\ run_metrics_df = [r \in PoolRunsUniverse |-> Unset]
    /\ write_count = [r \in PoolRunsUniverse |-> 0]

PoolIdle ==
    /\ config_max_workers = 1
    /\ pool_n = [p \in {PoolProjects[i] : i \in DOMAIN PoolProjects} |-> 0]
    /\ pool_project = 1
    /\ pool_pc = "next"
    /\ pool_max = 0
    /\ pools_started = {}
    /\ task = [r \in PoolRunsUniverse |-> "none"]
    /\ future_result = [r \in PoolRunsUniverse |-> Unset]
    /\ run_metrics_df = [r \in PoolRunsUniverse |-> Unset]
    /\ write_count = [r \in PoolRunsUniverse |-> 0]

\* __get_metrics comes to a project: one without runs is skipped, for the
\* others __process_project_runs makes the executor and submits every run.
EnterProject ==
    /\ pool_pc = "next"
    /\ LET p == PoolProjects[pool_project] IN
       IF starts_pool(pool_n[p])
       THEN /\ pool_max' = pool_size(config_max_workers, pool_n[p])
            /\ pools_started' = pools_started \cup {p}
            /\ task' = [r \in PoolRunsUniverse |->
                          IF r \in RunsOfProject(p) THEN "queued" ELSE task[r]]
            /\ pool_pc' = "collecting"
            /\ UNCHANGED pool_project
       ELSE /\ pool_project' = pool_project + 1
            /\ pool_pc' = IF pool_project = Len(PoolProjects) THEN "done" ELSE "next"
            /\ UNCHANGED <<pool_max, pools_started, task>>
    /\ UNCHANGED <<config_max_workers, pool_n, future_result, run_metrics_df, write_count>>

\* A worker of the executor takes a queued task.
WorkerStart(r) ==
    /\ task[r] = "queued"
    /\ Cardinality(Running) < pool_max
    /\ task' = [task EXCEPT ![r] = "running"]
    /\ UNCHANGED <<config_max_workers, pool_n, pool_project, pool_pc, pool_max,
                   pools_started, future_result, run_metrics_df, write_count>>

\* The worker's __create_metrics_df_with_retry comes back: what it returned
\* or raised is kept in the future.
WorkerFinish(r) ==
    /\ task[r] = "running"
    /\ \E d \in FetchOutcomes : future_result' = [future_result EXCEPT ![r] = [of |-> r, data |-> d]]
    /\ task' = [task EXCEPT ![r] = "finished"]
    /\ UNCHANGED <<config_max_workers, pool_n, pool_project, pool_pc, pool_max,
                   pools_started, run_metrics_df, write_count>>

\* One pass of the loop over as_completed(futures), in the driver.
DriverCollect(r) ==
    /\ pool_pc = "collecting"
    /\ task[r] = "finished"
    /\ LET run == run_of_future(r)
           got == future_result[r]
       IN  /\ run_metrics_df' = [run_metrics_df EXCEPT ![run] =
                                   IF got.data = "raises" THEN [got EXCEPT !.data = "empty"]
                                   ELSE got]
           /\ write_count' = [write_count EXCEPT ![run] = @ + 1]
    /\ task' = [task EXCEPT ![r] = "collected"]
    /\ UNCHANGED <<config_max_workers, pool_n, pool_project, pool_pc, pool_max,
                   pools_started, future_result>>

\* The loop is over and the with block has shut the executor down:
\* __process_project_runs returns.
ClosePool ==
    /\ pool_pc = "collecting"
    /\ \A r \in RunsOfProject(PoolProjects[pool_project]) : task[r] = "collected"
    /\ pool_max' = 0
    /\ pool_project' = pool_project + 1
    /\ pool_pc' = IF pool_project = Len(PoolProjects) THEN "done" ELSE "next"
    /\ UNCHANGED <<config_max_workers, pool_n, pools_started, task, future_result,
                   run_metrics_df, write_count>>

(***************************************************************************)
(*           RunManager.__get_projects: the test on the dates              *)
(***************************************************************************)

DueDays == 0..4

\* if (self.end_date >= team_config.start_date) and
\*    (self.start_date <= team_config.end_date)
is_due(range_start, range_end, team_start, team_end) ==
    range_end >= team_start /\ range_start <= team_end

DueInit ==
    /\ team_dates \in {d \in DueDays \X DueDays : d[1] < d[2]}
    /\ requested_range \in {d \in DueDays \X DueDays : d[1] <= d[2]}
    /\ due_pc = "ready"
    /\ projects_asked = FALSE

DueIdle ==
    /\ team_dates = <<0, 1>>
    /\ requested_range = <<0, 0>>
    /\ due_pc = "ready"
    /\ projects_asked = FALSE

\* __get_projects, for one team: api.projects is called only for a team that
\* passes the test.
AskProjects ==
    /\ due_pc = "ready"
    /\ projects_asked' = is_due(requested_range[1], requested_range[2],
                                team_dates[1], team_dates[2])
    /\ due_pc' = "done"
    /\ UNCHANGED <<team_dates, requested_range>>

(***************************************************************************)
(*        GPUUsageCalculator.agg_summary: the window and the filter        *)
(***************************************************************************)

MaxWeekRows == 2

\* One end_date per day of the week, Monday (7) to Sunday (13).
WeekEndDates == 7..13

\* The dates of the rows: around the borders of the weeks before, at and
\* after the end dates.
WeekRowDates == {5, 6, 7, 12, 13, 19}

RunExistsValues == {"exists", "error", "deleted", NULL}

WeekRowUniverse == [date : WeekRowDates, run_exists : RunExistsValues]

\* The frames of at most n rows.
RECURSIVE WeekRowSets(_)
WeekRowSets(n) ==
    IF n = 0 THEN {{}}
    ELSE LET smaller == WeekRowSets(n - 1)
         IN  smaller \cup {f \cup {r} : <<f, r>> \in smaller \X WeekRowUniverse}

\* start_date = self.end_date - timedelta(days=(self.end_date.weekday() + 1) % 7)
summary_start_date(e) == e - ((python_weekday(e) + 1) % 7)

\* end_date = start_date + timedelta(days=6)
summary_end_date(e) == summary_start_date(e) + 6

WeekInit ==
    /\ week_end_date \in WeekEndDates
    /\ week_rows \in WeekRowSets(MaxWeekRows)
    /\ week_pc = "ready"
    /\ week_window = <<0, 0>>
    /\ week_filtered = {}

WeekIdle ==
    /\ week_end_date = 7
    /\ week_rows = {}
    /\ week_pc = "ready"
    /\ week_window = <<0, 0>>
    /\ week_filtered = {}

\* agg_summary up to df_filtered: nothing is computed when the frame __init__
\* kept is empty; otherwise the rows dated within the window whose run_exists
\* != "deleted" holds (false for 'deleted', null for a null).
AggSummaryFilter ==
    /\ week_pc = "ready"
    /\ LET all_rows == kept(week_rows) IN
       IF all_rows = {}
       THEN /\ week_pc' = "empty"
            /\ UNCHANGED <<week_window, week_filtered>>
       ELSE LET s == summary_start_date(week_end_date)
                e == summary_end_date(week_end_date)
            IN  /\ week_window' = <<s, e>>
                /\ week_filtered' =
                      {r \in all_rows :
                          /\ r.date >= s /\ r.date <= e
                          /\ r.run_exists # "deleted" /\ r.run_exists # NULL}
                /\ week_pc' = "done"
    /\ UNCHANGED <<week_end_date, week_rows>>

(***************************************************************************)
(*                 Properties of the record reconciler                     *)
(***************************************************************************)

\* C1: across reconciliation passes a row whose run_exists is 'deleted' keeps
\* run_exists = 'deleted' in every later pass, whatever upstream answers.
C1_DeletedNeverReverts ==
    [][\A r \in ReconRows :
          run_exists[r] = "deleted" => run_exists'[r] = "deleted"]_vars

\* A pass has run over a row that was already deleted while upstream would
\* have answered that the run is there.
C1_Witness ==
    \E r \in ReconRows :
        /\ passes >= 2
        /\ df_in[r] = "deleted"
        /\ upstream[r] = "ok"
        /\ run_exists[r] = "deleted"

\* C7: in one pass every row not marked 'deleted' is probed and becomes
\* 'exists' on a successful probe, 'deleted' only on a "not found" answer and
\* 'error' on any other failure; a row marked 'deleted' is not probed and is
\* left unchanged.
C7_ProbeDecidesStatus ==
    passes > 0 =>
        \A r \in ReconRows :
            /\ df_in[r] # "deleted" =>
                  /\ r \in probed
                  /\ upstream[r] = "ok" => run_exists[r] = "exists"
                  /\ run_exists[r] = "deleted" => upstream[r] = "comm_not_found"
                  /\ upstream[r] \notin {"ok", "comm_not_found"} =>
                        run_exists[r] = "error"
            /\ df_in[r] = "deleted" =>
                  /\ r \notin probed
                  /\ run_exists[r] = "deleted"

RowSet(df) == {df.rows[i] : i \in 1..Len(df.rows)}

Castable(df) == "cpu_count" \in df.cols /\ ~df.bad

\* C2: after combine_df(new, historical) every natural key whose historical
\* rows were marked 'deleted' is still marked 'deleted' in the merged dataset.
C2_MergeKeepsDeleted ==
    (merge_calls = 1 /\ merge_outcome = "returned" /\ Castable(new_runs_df)
        /\ ~old_runs_df.bad) =>
        \A k \in KeysIn(old_runs_df.rows) :
            (\A r \in RowSet(old_runs_df) : r.key = k => r.run_exists = "deleted") =>
                /\ \E r \in RowSet(all_runs_df) : r.key = k
                /\ \A r \in RowSet(all_runs_df) :
                      r.key = k => r.run_exists = "deleted"

MaxLoggedAtOf(rows, k) ==
    CHOOSE t \in 1..MaxLoggedAt :
        /\ \E i \in 1..Len(rows) : rows[i].key = k /\ rows[i].logged_at = t
        /\ \A i \in 1..Len(rows) : rows[i].key = k => rows[i].logged_at <= t

\* C4: combine_df returns exactly one row for every natural key of either
\* input, the one with the latest logged_at among the input rows of that key.
C4_OneLatestRowPerKey ==
    (merge_calls = 1 /\ merge_outcome = "returned" /\ Castable(new_runs_df)
        /\ ~old_runs_df.bad) =>
        LET input == new_runs_df.rows \o old_runs_df.rows IN
        \A k \in KeysIn(input) :
            /\ Cardinality({i \in 1..Len(all_runs_df.rows) :
                              all_runs_df.rows[i].key = k}) = 1
            /\ \A i \in 1..Len(all_runs_df.rows) :
                  all_runs_df.rows[i].key = k =>
                      all_runs_df.rows[i].logged_at = MaxLoggedAtOf(input, k)

\* C5: for a merged dataset M, combine_df(M, M) holds exactly the rows of M.
C5_MergeIdempotent ==
    (merge_calls = 2 /\ Castable(new_runs_df)) =>
        /\ merge_outcome = "returned"
        /\ RowSet(all_runs_df) = RowSet(new_runs_df)

\* C6: when casting either input fails inside combine_df, the call returns an
\* empty dataset.
C6_CastFailureReturnsEmpty ==
    (/\ merge_calls = 1
     /\ ~is_empty(old_runs_df)
     /\ \/ set_schema(new_runs_df) = EmptyFrame
        \/ set_schema(conform(old_runs_df, new_runs_df.cols)) = EmptyFrame) =>
        /\ merge_outcome = "returned"
        /\ is_empty(all_runs_df)


(***************************************************************************)
(*                   Properties of the usage aggregator                    *)
(***************************************************************************)

Min(a, b) == IF a <= b THEN a ELSE b

KeptRows == kept(usage_rows)

\* The usage of one company on one day in GPU-minutes, straight from the rows.
RawGpuMinutes(c, d) ==
    LET J == {r \in KeptRows : r.company_name = c /\ r.date = d}
    IN  SumOver(J, [r \in J |-> r.duration_min * r.gpu_count])

\* The same to one decimal place, in tenths of GPU-hours.
RawGpuHour(c, d) == RoundDiv(RawGpuMinutes(c, d), 6)

\* The capacity of a daily row in tenths of GPU-hours: its assigned nodes x 8
\* GPUs x 24 hours.
Capacity(row) == row.assigned_gpu_node * 8 * 24 * 10

\* C3: in every row of the four tables the utilization rate is in [0, 100]
\* and the reported total GPU-hours is at most the row's assigned_gpu_hour.
C3_RateAndTotalBounded ==
    published =>
        \A kind \in Kinds : \A row \in tables[kind] :
            /\ 0 <= row.utilization_rate
            /\ row.utilization_rate <= 1000
            /\ row.total_gpu_hour <= row.assigned_gpu_hour

\* Whether a usage row falls into a bucket of the calendar.
InBucket(kind, row, r) ==
    /\ r.company_name = row.company
    /\ IF kind = "daily" THEN r.date = row.key
       ELSE IF kind = "weekly" THEN row.key <= r.date /\ r.date <= row.key + 6
       ELSE IF kind = "monthly" THEN year_month(r.date) = row.key
       ELSE TRUE

BucketKeys(kind) == {<<b.company, b.key>> : b \in Scaffold(kind)}

OneRowPerBucket(kind) ==
    /\ {<<row.company, row.key>> : row \in tables[kind]} = BucketKeys(kind)
    /\ Cardinality(tables[kind]) = Cardinality(BucketKeys(kind))

EmptyBucketsAreZero(kind) ==
    \A row \in tables[kind] :
        (\A r \in KeptRows : ~InBucket(kind, row, r)) =>
            /\ row.total_gpu_hour = 0
            /\ row.utilization_rate = 0
            /\ row.n_runs = 0

C9_DailyCapOfRawSum ==
    published =>
        \A row \in tables["daily"] :
            LET gm == RawGpuMinutes(row.company, row.key)
                A  == Capacity(row)
            IN  /\ row.total_gpu_hour = Min(RoundDiv(gm, 6), A)
                /\ row.raw_total_gpu_hour = Some(RoundDiv(gm, 6))
                /\ A > 0 =>
                      row.utilization_rate = Min(1000, RoundDiv(gm * 1000, 6 * A))
                /\ (A = 0 /\ gm > 0) => row.utilization_rate = 1000

\* C9 (amended): with raw the sum of duration_hour x gpu_count rounded to one
\* decimal, a daily bucket reports total = min(raw, assigned), _total_gpu_hour
\* = raw, and as rate total / assigned x 100 to one decimal when assigned > 0,
\* and 0 when assigned = 0 and raw >= 0.
C9_DailyCapOfRoundedSum ==
    published =>
        \A row \in tables["daily"] :
            LET raw == RawGpuHour(row.company, row.key)
                A   == Capacity(row)
            IN  /\ row.assigned_gpu_hour = A
                /\ row.total_gpu_hour = Min(raw, A)
                /\ row.raw_total_gpu_hour = Some(raw)
                /\ A > 0 =>
                      row.utilization_rate = RoundDiv(Min(raw, A) * 1000, A)
                /\ (A = 0 /\ raw >= 0) => row.utilization_rate = 0

\* A daily bucket whose raw usage exceeds a positive capacity was reported.
C9_Witness ==
    /\ published
    /\ \E row \in tables["daily"] :
          /\ row.assigned_gpu_hour > 0
          /\ Val(row.raw_total_gpu_hour) > row.assigned_gpu_hour
          /\ row.total_gpu_hour = row.assigned_gpu_hour
          /\ row.utilization_rate = 1000

\* The scenario of C10: tenant T holds 2 nodes on day 3 and its only usage is
\* one run of 4 GPUs, active for 2 hours that day, average utilization 60.
C10_Scenario ==
    /\ published
    /\ \E b \in Scaffold("daily") :
          b.company = "T" /\ b.key = 3 /\ b.assigned_gpu_node = 2
    /\ KeptRows = usage_rows
    /\ \E r \in usage_rows :
          /\ usage_rows = {r}
          /\ r.company_name = "T" /\ r.date = 3
          /\ r.duration_min = 120 /\ r.gpu_count = 4
          /\ r.average_gpu_utilization = Some(60)

ScenarioRow == CHOOSE row \in tables["daily"] : row.company = "T" /\ row.key = 3

Max(a, b) == IF a >= b THEN a ELSE b

\* The days of the requested range on which the run was active.
CoveredDays ==
    {d \in date_range[1]..date_range[2] :
        DateOf(node.createdAt) <= d /\ d <= DateOf(node.heartbeatAt)}

\* The minutes of day d that lie between the run's creation and heartbeat.
ActiveMinutes(d) ==
    Min(node.heartbeatAt, (d + 1) * MinutesPerDay)
        - Max(node.createdAt, d * MinutesPerDay)

\* C11: for a valid run the collector emits exactly one usage row for each
\* day of the requested range on which the run was active, no other row, and
\* each row's duration_hour is the minutes the run was active that day / 60.
C11_OneRowPerCoveredDay ==
    run_pc = "emitted" =>
        /\ {r.date : r \in combined_df} = CoveredDays
        /\ Cardinality(combined_df) = Cardinality(CoveredDays)
        /\ \A r \in combined_df : r.duration_min = ActiveMinutes(r.date)

HasAcceleratorInfo == node.runInfo = "gpu"
NoIgnoredTag == node.tags \cap IgnoreTags = {}
HeartbeatDiffers == node.heartbeatAt # node.createdAt
OverlapsRange == CoveredDays # {}
AllFourConditions ==
    HasAcceleratorInfo /\ NoIgnoredTag /\ HeartbeatDiffers /\ OverlapsRange

\* C12: every run the collector emits has accelerator info, no globally
\* ignored tag, a heartbeat that differs from its creation time and an
\* interval that overlaps the requested range; a discovered run failing any
\* of the four is dropped.
C12_EmittedRunsAreValid ==
    /\ (run_pc \in {"valid", "emitted"}) => AllFourConditions
    /\ (run_pc # "discovered" /\ ~AllFourConditions) =>
            run_pc = "dropped" /\ combined_df = {}

\* A run that passes the four tests has had its rows emitted.
C12_Witness ==
    run_pc = "emitted" /\ combined_df # {} /\ AllFourConditions

(***************************************************************************)
(*                    Properties of the metrics phase                      *)
(***************************************************************************)

\* C13: whatever upstream does, a call that never returns included, every
\* run eventually has a metric set (an empty one after at most 3 attempts),
\* its worker is released and the project's metrics phase finishes.
C13_MetricsPhaseFinishes ==
    <>(/\ metrics_phase = "finished"
       /\ \A r \in ProjectRuns : metrics_df[r] # "unset" /\ Len(calls[r]) <= 3)

\* The attempts of a run that came back within their timeout.
InTime(r) ==
    {k \in 1..Len(calls[r]) : calls[r][k][2] # NEVER /\ calls[r][k][2] <= calls[r][k][1]}

\* C20: a run gets at most 3 attempts, attempt k with timeout 5 x k, a wait
\* of 5 between consecutive attempts, and the call returns the metrics of the
\* first attempt that succeeds in time or an empty set after the third
\* failure.
C20_RetryDiscipline ==
    \A r \in ProjectRuns :
        /\ Len(calls[r]) <= 3
        /\ \A k \in 1..Len(calls[r]) : calls[r][k][1] = 5 * k
        /\ Len(sleeps[r]) <= 2
        /\ \A k \in 2..Len(calls[r]) : Len(sleeps[r]) >= k - 1 /\ sleeps[r][k - 1] = 5
        /\ retry_pc[r] = "returned" =>
              IF InTime(r) # {}
              THEN /\ InTime(r) = {Len(calls[r])}
                   /\ metrics_df[r] = calls[r][Len(calls[r])][3]
              ELSE Len(calls[r]) = 3 /\ metrics_df[r] = "empty"
        /\ (Len(calls[r]) = 3 /\ calls[r][3][2] # NEVER /\ retry_pc[r] # "calling") =>
              retry_pc[r] = "returned"

\* A run went through three attempts that all came back late and was given
\* an empty metric set; another got its metrics at the second attempt.
C20_Witness ==
    /\ \E r \in ProjectRuns :
          Len(calls[r]) = 3 /\ InTime(r) = {} /\ retry_pc[r] = "returned"
          /\ metrics_df[r] = "empty"
    /\ \E r \in ProjectRuns :
          Len(calls[r]) = 2 /\ retry_pc[r] = "returned" /\ metrics_df[r] = "metrics"

\* C21: an exception raised by the upstream call during attempt 1 or 2 of a
\* run's metrics fetch causes another attempt for that run: the run does not
\* end there with an empty sample set.
C21_UpstreamErrorIsRetried ==
    \A r \in ProjectRuns : \A k \in 1..(max_retries - 1) :
        (Len(calls[r]) = k /\ calls[r][k][4] = "raises") =>
            retry_pc[r] \in {"sleeping", "calling"}

(***************************************************************************)
(*                       Properties of fetch_runs                          *)
(***************************************************************************)

\* C14: a failed project discovery gives that team zero projects and nothing
\* else; no failure of a single run (node parsing, GPU-count resolution,
\* metrics fetch, row building) aborts fetch_runs, and the runs of every
\* other team are still collected.
C14_FailuresAreIsolated ==
    /\ fetch_pc # "raised"
    /\ \A t \in Teams :
          (fetch_pc # "get_projects" /\ faults[t].discovery = "raises") =>
              projects[t] = {} /\ project_runs[t] = {} /\ t \notin fetch_df
    /\ fetch_pc = "returned" =>
          \A t \in Teams :
              (faults[t].due /\ faults[t].discovery = "ok" /\ faults[t].node = "ok"
                  /\ faults[t].rows = "ok") => t \in fetch_df

(***************************************************************************)
(*                   Properties of the GPU-count resolvers                 *)
(***************************************************************************)

\* The teams whose policy is a pair of keys.
PairTeams == {t \in DOMAIN TEAM_CONFIGS :
                 Len(TEAM_CONFIGS[t]) = 2 /\ TEAM_CONFIGS[t][2] # ""}

Upstream == Count(default_gpu_count(run_info))
Outcome == [out |-> resolved.out, v |-> resolved.v]

\* C17: for every team whose policy is a (nodes key, GPUs key) pair, a config
\* with 4 under the nodes key and 2 under the GPUs key resolves to 8, and a
\* config with 0 under the nodes key, or with both keys missing, resolves to
\* the upstream-reported count.
C17_PairPolicyResolves ==
    (/\ run_team \in PairTeams
     /\ config.json = "object"
     /\ \/ resolved.by = "set_gpucount"
        \/ resolved.by = "run_manager" /\ run_team = "kotoba-geniac")
    => /\ (config.nodes = IntValue(4) /\ config.gpus = IntValue(2)) =>
              Outcome = Count(8)
       /\ (config.nodes = IntValue(0)
              \/ (config.nodes = Missing /\ config.gpus = Missing)) =>
              Outcome = Upstream

\* C18: whenever the nodes key or the GPUs key configured for a team resolves
\* to 0, a non-numeric value included, set_gpucount returns the
\* upstream-reported count; a team absent from TEAM_CONFIGS always gets the
\* upstream-reported count.
C18_ZeroKeyFallsBack ==
    resolved.by = "set_gpucount" =>
        /\ run_team \notin DOMAIN TEAM_CONFIGS => Outcome = Upstream
        /\ (/\ run_team \in DOMAIN TEAM_CONFIGS
            /\ config.json = "object"
            /\ TEAM_CONFIGS[run_team] # <<>>
            /\ \/ get_config_value(config.nodes) = 0
               \/ TEAM_CONFIGS[run_team][2] # "" /\ get_config_value(config.gpus) = 0)
           => Outcome = Upstream

\* C19: for every config (a text that is no JSON, non-numeric values and
\* negative values included) and every team, a resolver returns an integer
\* greater than or equal to 0 and never raises.
C19_ResolverIsTotal ==
    resolved.by # "none" => resolved.out = "int" /\ resolved.v >= 0

(***************************************************************************)
(*                     Properties of the weekly summary                    *)
(***************************************************************************)

SummaryKept == {r \in SummaryRunIds : summary_runs[r].in_week}
SortedPos(r) == CHOOSE k \in DOMAIN sorted : sorted[k] = r

\* q starts before r; runs that start together stand as the sort left them.
StartsBefore(q, r) ==
    \/ summary_runs[q].created_at < summary_runs[r].created_at
    \/ /\ summary_runs[q].created_at = summary_runs[r].created_at
       /\ SortedPos(q) < SortedPos(r)

\* The runs that come just before r among the runs of `among`, by start time.
PreviousRuns(r, among) ==
    {q \in among \ {r} :
        /\ StartsBefore(q, r)
        /\ ~ \E x \in among \ {q, r} : StartsBefore(q, x) /\ StartsBefore(x, r)}

StartsBeforePreviousEnds(r, among) ==
    \E q \in PreviousRuns(r, among) :
        summary_runs[r].created_at < summary_runs[q].updated_at

SameHost(r) == {q \in SummaryKept : summary_runs[q].host_name = summary_runs[r].host_name}
SameProjectAndHost(r) ==
    {q \in SummaryKept : SamePartition(summary_runs[q], summary_runs[r])}

TagOwners == {"overall"} \cup TagCompanies
LatestOf(runs, owner) == {run \in runs : run.owner = owner /\ run.latest}
PublishedNow(owner) == Publication(invocations, owner) \in dashboard

AtMostOneLatest ==
    \A owner \in TagOwners : Cardinality(LatestOf(dashboard, owner)) <= 1

\* A publication is tagged only when no older run of its owner has the tag.
PriorRemovedFirst ==
    \A owner \in TagOwners :
        PublishedNow(owner) => LatestOf(dashboard, owner) = {Publication(invocations, owner)}

NodesBefore(k) == Min2((k - 1) * PageSize, Len(upstream_nodes))

\* The query at which discovery stops: the first that raises or that returns
\* no edges.
LastQuery ==
    LET empty_at == (Len(upstream_nodes) + PageSize - 1) \div PageSize + 1 IN
    IF fail_at # 0 /\ fail_at < empty_at THEN fail_at ELSE empty_at

CursorsFollowPages ==
    \A k \in 1..Len(requested) : requested[k] = NodesBefore(k)

\* The valid nodes among the first n, each once, in order.
ValidAmong(n) ==
    SelectSeq([i \in 1..n |-> i], LAMBDA p : upstream_nodes[p] = "valid")

\* C22: discovery asks each page with the cursor of the last edge of the page
\* before, stops at the first page without edges or the first query error,
\* and then returns the validated runs of the pages before, none lost and
\* none twice; it ends for every finite upstream list.
C22_PaginationKeepsPages ==
    /\ CursorsFollowPages
    /\ Len(requested) <= LastQuery
    /\ discover_pc # "raised"
    /\ discover_pc = "returned" =>
          /\ Len(requested) = LastQuery
          /\ discovered = ValidAmong(NodesBefore(LastQuery))

(***************************************************************************)
(*                    Properties of the worker pools                       *)
(***************************************************************************)

CurrentProject == PoolProjects[pool_project]
ProjectsDone == {PoolProjects[i] : i \in 1..(pool_project - 1)}

\* C23: during one project's metrics phase no more fetches run at a time
\* than min(configured max workers, runs of the project); a project with no
\* runs starts no pool; no fetch of another project runs at the same time.
C23_PoolIsBounded ==
    /\ Running # {} =>
          /\ pool_pc = "collecting"
          /\ Cardinality(Running) <= Min2(config_max_workers, pool_n[CurrentProject])
          /\ \A r \in Running : r[1] = CurrentProject
    /\ \A p \in pools_started : pool_n[p] > 0
    /\ \A p \in ProjectsDone : \A r \in RunsOfProject(p) : task[r] = "collected"

\* Three runs under two configured workers: two fetches run at once, the
\* third waits; the project before had no runs and no pool.
C23_Witness ==
    /\ config_max_workers = 2
    /\ pool_n = [p \in DOMAIN pool_n |-> IF p = "p1" THEN 0 ELSE 3]
    /\ pools_started = {"p2"}
    /\ Cardinality(Running) = 2
    /\ \E r \in RunsOfProject("p2") : task[r] = "queued"

\* C24: under every interleaving of the workers each run's metrics are
\* written once, by the driver's loop, with what that run's own fetch gave
\* (an empty frame if it raised); a worker writes none; when
\* __process_project_runs returns every run of the project has its metrics.
C24_DriverAloneWrites ==
    /\ \A r \in PoolRunsUniverse :
          /\ write_count[r] = (IF task[r] = "collected" THEN 1 ELSE 0)
          /\ task[r] # "collected" => run_metrics_df[r] = Unset
          /\ task[r] = "collected" =>
                /\ run_metrics_df[r].of = r
                /\ run_metrics_df[r].data =
                      (IF future_result[r].data = "raises" THEN "empty"
                       ELSE future_result[r].data)
    /\ \A p \in ProjectsDone : \A r \in RunsOfProject(p) :
          run_metrics_df[r].data \in {"metrics", "empty"}

\* A project of three runs has returned; its runs hold different results,
\* one of them the empty frame the driver wrote for a fetch that raised.
C24_Witness ==
    /\ pool_n["p1"] = 3
    /\ "p1" \in ProjectsDone
    /\ run_metrics_df[<<"p1", 1>>].data = "metrics"
    /\ run_metrics_df[<<"p1", 2>>].data = "empty"
    /\ future_result[<<"p1", 3>>].data = "raises"
    /\ run_metrics_df[<<"p1", 3>>].data = "empty"

(***************************************************************************)
(*                 Properties of the test on the dates                     *)
(***************************************************************************)

\* The days D with start_date <= D < end_date.
ActiveDays == {d \in DueDays : team_dates[1] <= d /\ d < team_dates[2]}
RequestedDays == requested_range[1]..requested_range[2]

\* C25: a team's projects are listed if and only if its active interval, the
\* days D with start_date <= D < end_date, overlaps the requested range; for
\* a range that begins on or after its end_date, or ends before its
\* start_date, nothing of the team is queried.
C25_DiscoveredIffActive ==
    due_pc = "done" =>
        /\ projects_asked <=> (ActiveDays \cap RequestedDays # {})
        /\ (requested_range[1] >= team_dates[2] \/ requested_range[2] < team_dates[1])
              => ~projects_asked

\* The Monday of the week (Monday to Sunday) a day belongs to.
MondayOf(d) == d - python_weekday(d)

\* The runs of a company's kept rows in the week beginning on Monday m, when
\* that week is closed (its Monday before the Monday of end_date's week).
RunsOfClosedWeek(c, m) ==
    {r.run_id : r \in {q \in kept(usage_rows) :
                          /\ TeamCompany(q.company_name) = c
                          /\ MondayOf(q.date) = m
                          /\ m < MondayOf(end_date)}}

\* C26: the week key computed for a usage row is the Monday of the week
\* containing the row's date, and a row of the weekly table counts exactly the
\* runs of its week when that week's Monday is strictly before the Monday of
\* the week containing end_date.
C26_WeekKeyIsMonday ==
    published =>
        /\ \A r \in kept(usage_rows) : RowKey("weekly", r) = MondayOf(r.date)
        /\ \A b \in tables["weekly"] :
              python_weekday(b.key) = 0
                  => b.n_runs = Cardinality(RunsOfClosedWeek(b.company, b.key))

(***************************************************************************)
(*                 Properties of the summary's window                      *)
(***************************************************************************)

\* C27: the window of the weekly summary is the most recently completed
\* Monday-to-Sunday week: its first day is a Monday, its last day is the
\* Sunday six days later, and its last day is not after end_date.
C27_WindowIsLastCompletedWeek ==
    week_pc = "done" =>
        /\ python_weekday(week_window[1]) = 0
        /\ week_window[2] = week_window[1] + 6
        /\ python_weekday(week_window[2]) = 6
        /\ week_window[2] <= week_end_date

\* The rows of the frame dated within the window of the summary.
RowsInWindow == {r \in week_rows : r.date >= week_window[1] /\ r.date <= week_window[2]}

\* C29: a usage row is counted if and only if its run_exists is not
\* 'deleted': the summary is computed from exactly the rows of its window
\* that are not marked 'deleted', those marked 'exists' or 'error' and those
\* whose run_exists is null among them.
C29_CountedIffNotDeleted ==
    week_pc = "done" =>
        week_filtered = {r \in RowsInWindow : r.run_exists # "deleted"}

\* Rows of one run: the same company, project and run_id, on whatever dates.
SameRun(r, q) ==
    /\ r.company_name = q.company_name
    /\ r.project = q.project
    /\ r.run_id = q.run_id

\* C28: after a reconciliation pass all rows of the same run carry the same
\* run_exists value, whatever the upstream answered to the probes of the pass.
C28_RowsOfARunAgree ==
    passes > 0 =>
        \A r, q \in ReconRows : SameRun(r, q) => run_exists[r] = run_exists[q]

\* The rows of the daily table for the days of a bucket of another granularity.
DayRows(kind, b) ==
    {d \in tables["daily"] : d.company = b.company /\ ScaffoldKey(kind, d.key) = b.key}

\* A day's raw GPU-hours, as the daily table reports them.
DayRaw(d) == IF d.raw_total_gpu_hour = Null THEN 0 ELSE Val(d.raw_total_gpu_hour)

\* The sum over the days of a bucket of min(day raw, day assigned).
SumOfDailyCaps(kind, b) ==
    LET days == DayRows(kind, b)
    IN  SumOver(days, [d \in days |-> Min2(DayRaw(d), d.assigned_gpu_hour)])

\* The raw GPU-hours of a bucket's whole period.
PeriodRaw(kind, b) ==
    LET days == DayRows(kind, b) IN SumOver(days, [d \in days |-> DayRaw(d)])

PeriodKinds == {"weekly", "monthly", "overall"}

\* C30: the total GPU-hours reported for a weekly, monthly or overall bucket
\* is the sum over the bucket's days of min(day raw, day assigned), and it
\* equals min(raw of the whole period, assigned_gpu_hour of the whole period)
\* however the usage is spread over the days.
C30_PeriodTotalIsPeriodCap ==
    published =>
        \A kind \in PeriodKinds : \A b \in tables[kind] :
            /\ b.total_gpu_hour = SumOfDailyCaps(kind, b)
            /\ b.total_gpu_hour = Min2(PeriodRaw(kind, b), b.assigned_gpu_hour)

\* Every part but one at rest, and left alone by the other's steps.
IdleBut(part) ==
    /\ IF part = "recon" THEN TRUE ELSE ReconIdle
    /\ IF part = "merge" THEN TRUE ELSE MergeIdle
    /\ IF part = "agg" THEN TRUE ELSE AggIdle
    /\ IF part = "run" THEN TRUE ELSE RunIdle
    /\ IF part = "retry" THEN TRUE ELSE RetryIdle
    /\ IF part = "fetch" THEN TRUE ELSE FetchIdle
    /\ IF part = "resolve" THEN TRUE ELSE ResolveIdle
    /\ IF part = "summary" THEN TRUE ELSE SummaryIdle
    /\ IF part = "tags" THEN TRUE ELSE TagIdle
    /\ IF part = "week" THEN TRUE ELSE WeekIdle
    /\ IF part = "due" THEN TRUE ELSE DueIdle
    /\ IF part = "pool" THEN TRUE ELSE PoolIdle
    /\ IF part = "discover" THEN TRUE ELSE DiscoverIdle

FrameBut(part) ==
    /\ IF part = "recon" THEN TRUE ELSE UNCHANGED reconVars
    /\ IF part = "merge" THEN TRUE ELSE UNCHANGED mergeVars
    /\ IF part = "agg" THEN TRUE ELSE UNCHANGED aggVars
    /\ IF part = "run" THEN TRUE ELSE UNCHANGED runVars
    /\ IF part = "retry" THEN TRUE ELSE UNCHANGED retryVars
    /\ IF part = "fetch" THEN TRUE ELSE UNCHANGED fetchVars
    /\ IF part = "resolve" THEN TRUE ELSE UNCHANGED resolveVars
    /\ IF part = "summary" THEN TRUE ELSE UNCHANGED summaryVars
    /\ IF part = "tags" THEN TRUE ELSE UNCHANGED tagVars
    /\ IF part = "week" THEN TRUE ELSE UNCHANGED weekVars
    /\ IF part = "due" THEN TRUE ELSE UNCHANGED dueVars
    /\ IF part = "pool" THEN TRUE ELSE UNCHANGED poolVars
    /\ IF part = "discover" THEN TRUE ELSE UNCHANGED discoverVars

InitRecon == ReconInit /\ IdleBut("recon")
NextRecon == UpdateRunExistence /\ FrameBut("recon")
SpecRecon == InitRecon /\ [][NextRecon]_vars

MergeInit ==
    /\ new_runs_df \in NewFrames
    /\ old_runs_df \in OldFrames
    /\ all_runs_df = NoFrame
    /\ merge_outcome = "none"
    /\ merge_calls = 0

InitMerge == MergeInit /\ IdleBut("merge")
NextMerge == (Combine \/ Recombine) /\ FrameBut("merge")
SpecMerge == InitMerge /\ [][NextMerge]_vars

InitAgg == AggInit /\ IdleBut("agg")
NextAgg == (AddUsageRow \/ UpdateTables) /\ FrameBut("agg")
SpecAgg == InitAgg /\ [][NextAgg]_vars

InitRun == RunInit /\ IdleBut("run")
NextRun == (ProcessNode \/ CombineRunDf) /\ FrameBut("run")
SpecRun == InitRun /\ [][NextRun]_vars

InitRetry == RetryInit /\ IdleBut("retry")
NextRetry ==
    /\ \/ \E r \in ProjectRuns : StartTask(r) \/ Attempt(r) \/ Sleep(r)
       \/ FinishPhase
    /\ FrameBut("retry")
SpecRetry == InitRetry /\ [][NextRetry]_vars /\ WF_vars(NextRetry)

InitFetch == FetchInit /\ IdleBut("fetch")
NextFetch ==
    (GetProjects \/ GetRuns \/ GetMetrics \/ CombinedRunDf) /\ FrameBut("fetch")
SpecFetch == InitFetch /\ [][NextFetch]_vars

InitResolve == ResolveInit /\ IdleBut("resolve")
NextResolve == (SetGpucount \/ RunManagerSetGpucount) /\ FrameBut("resolve")
SpecResolve == InitResolve /\ [][NextResolve]_vars

InitSummary == SummaryInit /\ IdleBut("summary")
NextSummary == AggSummary /\ FrameBut("summary")
SpecSummary == InitSummary /\ [][NextSummary]_vars

InitTags == TagInit /\ IdleBut("tags")
NextTags ==
    (MainInvocation \/ RemoveLatestTags \/ UpdateOverall \/ UpdateCompanies)
        /\ FrameBut("tags")
SpecTags == InitTags /\ [][NextTags]_vars

InitDiscover == DiscoverInit /\ IdleBut("discover")
NextDiscover == QueryPage /\ FrameBut("discover")
SpecDiscover == InitDiscover /\ [][NextDiscover]_vars

InitPool == PoolInit /\ IdleBut("pool")
NextPool ==
    /\ \/ EnterProject
       \/ \E r \in PoolRunsUniverse : WorkerStart(r) \/ WorkerFinish(r) \/ DriverCollect(r)
       \/ ClosePool
    /\ FrameBut("pool")
SpecPool == InitPool /\ [][NextPool]_vars

InitDue == DueInit /\ IdleBut("due")
NextDue == AskProjects /\ FrameBut("due")
SpecDue == InitDue /\ [][NextDue]_vars

InitWeek == WeekInit /\ IdleBut("week")
NextWeek == AggSummaryFilter /\ FrameBut("week")
SpecWeek == InitWeek /\ [][NextWeek]_vars

====
